---- MODULE Spec2Model ----
(***************************************************************************)
(* Conversation orchestration and escalation state machine of the         *)
(* WhatsApp sales bot (src/server.js): the webhook turn, the inference     *)
(* gateway with its bounded retry, the tool interpretation, the dispatch   *)
(* through sendWhatsApp, the retry queue and its background sweep, and     *)
(* the admin operations that touch the same state.                         *)
(*                                                                         *)
(* server.js runs on one event loop: the code between two awaits runs      *)
(* without interruption.  Every action below is one such run, from the     *)
(* point where a handler is resumed to its next await (or its return).     *)
(***************************************************************************)
EXTENDS Integers, Sequences, FiniteSets, TLC

\* ------------------------------------------------------------------ bounds

MaxClock == 4        \* the clock (Date.now()) is explored up to this value
MaxInbound == 1      \* webhook deliveries accepted in one behaviour
MaxTicks == 1        \* sweep ticks that find work in one behaviour
PairInbound == 2     \* deliveries when two webhook invocations run side by side
MaxRuns == 2         \* lead analysis runs in one behaviour
MaxReplies == 1      \* admin replies in one behaviour
MaxMessages == 33    \* messages of the longest conversation the history is built from
MaxProducts == 2     \* products the inventory holds when one more is added
MaxStored == 4       \* messages of a conversation past which no further replay is answered

\* ------------------------------------------------------- program constants

maxRetries == 2      \* sendMessageWithRetry: const maxRetries = 2
BaseDelay == 2000    \* sendMessageWithRetry: delay = 2000 * (i + 1)
MaxImages == 5       \* product.images.slice(0, 5)
HistoryWindow == 30   \* .slice(-30)

\* A timestamp read back from chats.json is an ISO string, no longer a Date:
\* compared with a number it gives NaN, so every such comparison is false.
FileStamp == -1

\* c.lastAnalyzedTime undefined: lastScan = 0, the epoch; leadsData.lastUpdated
\* null.  Earlier than every time of the model.
Never == -2

MaxAnalyzed == 20    \* chatsToAnalyze.slice(0, 20)

\* --------------------------------------------------------------- universes

SessionIds == {"s1", "s2"}     \* counterpart phone numbers
WebhookIds == {"w1", "w2"}     \* concurrent invocations of the webhook handler

\* An error object as the catch blocks read it: err.status, err.code and
\* whether err.message contains 'overloaded'.  status 0 stands for undefined.
E503 == [status |-> 503, code |-> "", overloaded |-> FALSE]
E429 == [status |-> 429, code |-> "", overloaded |-> FALSE]
EOverloaded == [status |-> 500, code |-> "", overloaded |-> TRUE]
E400 == [status |-> 400, code |-> "", overloaded |-> FALSE]
ENetwork == [status |-> 0, code |-> "", overloaded |-> FALSE]
ETimedOut == [status |-> 0, code |-> "ETIMEDOUT", overloaded |-> FALSE]
ETypeError == [status |-> 0, code |-> "TypeError", overloaded |-> FALSE]
NoError == [status |-> 0, code |-> "none", overloaded |-> FALSE]

\* What the provider may answer an inference call with.
ProviderErrors == {E503, E429, EOverloaded, E400, ENetwork, ETimedOut}
\* What axios.post may reject with in sendWhatsApp: an HTTP error of the Graph
\* API (err.status set or not, depending on the axios build) or a network error.
TransportErrors == {E400, ENetwork}

\* Tool calls and model outputs (result.candidates[0].content.parts).
Display(p) == [name |-> "displayProduct", arg |-> p]
Escalate == [name |-> "escalateToAdmin", arg |-> "reason"]
Out(t, c) == [text |-> t, calls |-> c]
ModelOutputs ==
  { Out(<<"a">>, <<>>),
    Out(<<>>, <<>>),
    Out(<<"*", "a", "*">>, <<>>),
    Out(<<"*", "*">>, <<>>),
    Out(<<"a">>, <<Escalate>>),
    Out(<<>>, <<Escalate>>),
    Out(<<"a">>, <<Display("p1"), Escalate>>),
    Out(<<"a">>, <<Escalate, Display("p1")>>),
    Out(<<"a">>, <<Display("p1")>>),
    Out(<<>>, <<Display("p1")>>),
    Out(<<"a">>, <<Display("p1"), Display("p2")>>),
    Out(<<"a">>, <<Display("px")>>) }

\* A text, a text with an escalation, a text with a product display.
ShortOutputs ==
  { Out(<<"a">>, <<>>), Out(<<"a">>, <<Escalate>>), Out(<<"a">>, <<Display("p1")>>) }

\* The answers of a model that calls no tool.
PlainOutputs == { Out(<<"a">>, <<>>) }

\* The inventory file as loaded: p1 has two images, p2 has none.
InitialInventory ==
  << [id |-> "p1", images |-> <<"i1", "i2">>],
     [id |-> "p2", images |-> <<>>] >>

VARIABLES
  chatSessions,      \* let chatSessions = {}: id -> session
  retryQueue,        \* let retryQueue = []
  productInventory,  \* let productInventory = []
  apiKey,            \* process.env.API_KEY is set
  accessToken,       \* serverConfig.accessToken is non-empty
  clock,             \* Date.now()
  wh,                \* the webhook handler invocations: locals and position
  sweep,             \* the setInterval sweep callback: locals and position
  budget,            \* webhook deliveries and working sweep ticks so far
  leadsData,         \* let leadsData = { serious, stalled, visiting, followUp, lastUpdated }
  analysis,          \* performLeadAnalysis: its locals, position and runs so far
  reply,             \* the /api/send-message request: locals, position, response
  ev                 \* the last step taken, with what it found before it

vars == <<chatSessions, retryQueue, productInventory, apiKey, accessToken,
          clock, wh, sweep, budget, leadsData, analysis, reply, ev>>

\* ------------------------------------------------------------ pure helpers

Min(a, b) == IF a < b THEN a ELSE b

\* text.replace(/cc/g, ''): the non-overlapping pairs, scanning from the left.
RECURSIVE RemovePairs(_, _)
RemovePairs(s, c) ==
  IF Len(s) < 2 THEN s
  ELSE IF s[1] = c /\ s[2] = c THEN RemovePairs(Tail(Tail(s)), c)
  ELSE <<s[1]>> \o RemovePairs(Tail(s), c)

\* text.replace(/c/g, '')
RECURSIVE RemoveAll(_, _)
RemoveAll(s, c) ==
  IF s = <<>> THEN <<>>
  ELSE IF s[1] = c THEN RemoveAll(Tail(s), c)
  ELSE <<s[1]>> \o RemoveAll(Tail(s), c)

formatResponseText(text) ==
  IF text = <<>> THEN <<>>
  ELSE RemovePairs(RemovePairs(RemoveAll(RemovePairs(text, "*"), "*"), "#"), "_")

\* sendMessageWithRetry: status === 503 || status === 429 || msg.includes('overloaded')
IsTransientNever(err) == FALSE
IsTransient(err) == err.status = 503 \/ err.status = 429 \/ err.overloaded

\* The catch blocks of the webhook and of the sweep:
\* err.status === 503 || err.code === 'ETIMEDOUT' || !err.status
ShouldQueueAlways(err) == TRUE
ShouldQueue(err) == err.status = 503 \/ err.code = "ETIMEDOUT" \/ err.status = 0

\* 2000 * (i + 1), i counted from 0
RetryDelayFlat(i) == BaseDelay
RetryDelay(i) == BaseDelay * (i + 1)

\* productInventory.find(p => p.id === id): its index, 0 when there is none.
FindAnyProduct(inv, id) == IF inv = <<>> THEN 0 ELSE 1
FindProduct(inv, id) ==
  IF \E k \in 1..Len(inv) : inv[k].id = id
  THEN CHOOSE k \in 1..Len(inv) :
         inv[k].id = id /\ \A j \in 1..(k - 1) : inv[j].id # id
  ELSE 0

\* productInventory.find(p => p.images.includes(img)): its index, 0 when none.
FindByImage(inv, img) ==
  LET has(k) == \E j \in 1..Len(inv[k].images) : inv[k].images[j] = img
  IN IF \E k \in 1..Len(inv) : has(k)
     THEN CHOOSE k \in 1..Len(inv) : has(k) /\ \A j \in 1..(k - 1) : ~has(j)
     ELSE 0

\* The loop over functionCalls: the staged images (last resolved displayProduct
\* wins) and whether any call is escalateToAdmin.
RECURSIVE InterpretFrom(_, _, _, _)
InterpretFrom(calls, inv, images, lock) ==
  IF calls = <<>> THEN [images |-> images, lock |-> lock]
  ELSE LET fc == Head(calls)
           k == IF fc.name = "displayProduct" THEN FindProduct(inv, fc.arg) ELSE 0
           imgs == IF k # 0 /\ Len(inv[k].images) > 0
                   THEN SubSeq(inv[k].images, 1, Min(MaxImages, Len(inv[k].images)))
                   ELSE images
           lk == lock \/ fc.name = "escalateToAdmin"
       IN InterpretFrom(Tail(calls), inv, imgs, lk)

InterpretNoLock(calls, inv) ==
  [images |-> InterpretFrom(calls, inv, <<>>, FALSE).images, lock |-> FALSE]
Interpret(calls, inv) == InterpretFrom(calls, inv, <<>>, FALSE)

\* ---------------------------------------------------------- session store

Exists(cs, id) == id \in DOMAIN cs

\* The literal a session is created from (webhook and sendWhatsApp alike).
NewSession(now) ==
  [messages |-> <<>>, lastMessage |-> <<>>, lastMessageTime |-> now,
   unreadCount |-> 0, botActive |-> TRUE, isEscalated |-> FALSE,
   lastAnalyzedTime |-> Never]

Put(cs, id, s) == [x \in (DOMAIN cs) \cup {id} |-> IF x = id THEN s ELSE cs[x]]
Remove(cs, id) == [x \in (DOMAIN cs) \ {id} |-> cs[x]]

\* if (!chatSessions[id]) chatSessions[id] = {...}
EnsureFresh(cs, id, now) == Put(cs, id, NewSession(now))
Ensure(cs, id, now) == IF Exists(cs, id) THEN cs ELSE Put(cs, id, NewSession(now))

\* messages.push(msg); lastMessage = msg.text; lastMessageTime = new Date()
PushMessageRelease(s, msg, now) ==
  [s EXCEPT !.messages = Append(@, msg), !.lastMessage = msg.text,
            !.lastMessageTime = now, !.isEscalated = FALSE]
PushMessage(s, msg, now) ==
  [s EXCEPT !.messages = Append(@, msg), !.lastMessage = msg.text,
            !.lastMessageTime = now]

\* botActive = false; isEscalated = true
LockOnlyFlag(s) == [s EXCEPT !.isEscalated = TRUE]
LockForEscalation(s) == [s EXCEPT !.botActive = FALSE, !.isEscalated = TRUE]

\* toggle-bot: botActive = active; if (active) isEscalated = false
SetBotActiveKeepFlag(s, active) == [s EXCEPT !.botActive = active]
SetBotActive(s, active) ==
  [s EXCEPT !.botActive = active,
            !.isEscalated = IF active THEN FALSE ELSE @]

\* The message sendWhatsApp stores for a payload.
TextPayload(body) == [type |-> "text", body |-> body, link |-> <<>>, caption |-> <<>>]
ImagePayload(link, caption) ==
  [type |-> "image", body |-> <<>>, link |-> link, caption |-> caption]
SentImage == <<"Sent Image">>
StorageMsg(payload, now) ==
  [id |-> <<"ts", now>>, sender |-> "bot", timestamp |-> now, type |-> payload.type,
   text |-> IF payload.type = "text" THEN payload.body
            ELSE IF payload.caption # <<>> THEN payload.caption ELSE SentImage,
   image |-> IF payload.type = "image" THEN payload.link ELSE <<>>]

\* sendWhatsApp up to its await: nothing without an access token; otherwise the
\* session is created when missing and the message is stored.
SendWhatsAppStoreResets(cs, to, payload, isAdmin, now, token) ==
  IF ~token THEN cs
  ELSE LET cs1 == Ensure(cs, to, now)
           s1 == PushMessage(cs1[to], StorageMsg(payload, now), now)
       IN Put(cs1, to, [s1 EXCEPT !.unreadCount = 0])
SendWhatsAppStore(cs, to, payload, isAdmin, now, token) ==
  IF ~token THEN cs
  ELSE LET cs1 == Ensure(cs, to, now)
           s1 == PushMessage(cs1[to], StorageMsg(payload, now), now)
           s2 == IF isAdmin THEN [s1 EXCEPT !.unreadCount = 0] ELSE s1
       IN Put(cs1, to, s2)

\* ---------------------------------------------------------- context builder

\* s.slice(-n)
FirstN(s, n) == IF Len(s) <= n THEN s ELSE SubSeq(s, 1, n)
LastN(s, n) == IF Len(s) <= n THEN s ELSE SubSeq(s, Len(s) - n + 1, Len(s))

\* s.slice(0, -1)
AllButLast(s) == IF s = <<>> THEN s ELSE SubSeq(s, 1, Len(s) - 1)

\* role: m.sender === 'user' ? 'user' : 'model'
Role(m) == IF m.sender = "user" THEN "user" ELSE "model"

\* The webhook's history entry of a stored message: an image message becomes
\* `[User sent an image labeled: ${m.text || 'Photo'}]`.
HistoryEntryInline(m) ==
  [role |-> Role(m),
   parts |-> IF m.type = "image" /\ m.image # <<>>
             THEN <<[kind |-> "inlineData", val |-> m.image]>>
             ELSE <<[kind |-> "text", val |-> m.text]>>]
HistoryEntry(m) ==
  [role |-> Role(m),
   parts |-> <<[kind |-> "text",
                val |-> IF m.type = "image"
                        THEN <<"[User sent an image labeled: ">>
                               \o (IF m.text # <<>> THEN m.text ELSE <<"Photo">>)
                               \o <<"]">>
                        ELSE m.text]>>]

\* messages.slice(0, -1).slice(-30).filter(m => m.text || m.type === 'image')
\*         .map(...)
WebhookHistory(msgs) ==
  LET kept(m) == m.text # <<>> \/ m.type = "image"
      window == SelectSeq(LastN(AllButLast(msgs), HistoryWindow), kept)
  IN [k \in 1..Len(window) |-> HistoryEntry(window[k])]

\* m.timestamp < item.timestamp: a Date against a number compares the times,
\* a string read from the file against a number is false.
Before(stamp, t) == stamp # FileStamp /\ stamp < t

\* The sweep's history entry: an image message becomes '[Image]'.
ReplayEntry(m) ==
  [role |-> Role(m),
   parts |-> <<[kind |-> "text",
                val |-> IF m.type = "image" THEN <<"[Image]">> ELSE m.text]>>]

\* messages.filter(m => m.timestamp < item.timestamp).slice(-30).map(...)
SweepHistory(msgs, t) ==
  LET older(m) == Before(m.timestamp, t)
      window == LastN(SelectSeq(msgs, older), HistoryWindow)
  IN [k \in 1..Len(window) |-> ReplayEntry(window[k])]

\* -------------------------------------------------- handler state and events

\* Locals of one webhook invocation.  pc names the await it is suspended at;
\* catalog is the inventory getSystemInstruction was given for the turn's chat.
IdleW ==
  [pc |-> "idle", to |-> "", id |-> <<>>, ts |-> 0, caption |-> <<>>,
   parts |-> <<>>, history |-> <<>>, i |-> 0, calls |-> 0, err |-> NoError,
   delay |-> 0, images |-> <<>>, idx |-> 0, text |-> <<>>, sends |-> 0,
   inflight |-> FALSE, catalog |-> <<>>]

\* Locals of the sweep callback.  parked: the locals of another run of the
\* callback that is suspended at an await (setInterval fires again while an
\* earlier run is not over), none when it is empty.
IdleSweep ==
  [pc |-> "idle", batch |-> <<>>, pos |-> 0, history |-> <<>>, i |-> 0, calls |-> 0,
   err |-> NoError, delay |-> 0, images |-> <<>>, idx |-> 0, text |-> <<>>,
   sends |-> 0, inflight |-> FALSE, catalog |-> <<>>, parked |-> <<>>]

\* The model output holds an escalateToAdmin call.
HasEscalation(out) ==
  \E k \in 1..Len(out.calls) : out.calls[k].name = "escalateToAdmin"

\* The clock read by a step: the last value read (d = 0) or a later one.
CanRead(d) == d = 0 \/ clock < MaxClock

\* The record of a step: its kind, the handler and session it is about, and
\* what the step found before it changed anything.
Snap(kind, who, to) ==
  LET e == Exists(chatSessions, to)
  IN [kind |-> kind, who |-> who, to |-> to, exists |-> e,
      len |-> IF e THEN Len(chatSessions[to].messages) ELSE 0,
      unread |-> IF e THEN chatSessions[to].unreadCount ELSE 0,
      bot |-> IF e THEN chatSessions[to].botActive ELSE FALSE,
      esc |-> IF e THEN chatSessions[to].isEscalated ELSE FALSE,
      qlen |-> Len(retryQueue), err |-> NoError, outEsc |-> FALSE,
      outText |-> FALSE, outImages |-> 0, sends |-> 0, calls |-> 0,
      parts |-> <<>>, started |-> FALSE, live |-> FALSE, skipped |-> <<>>,
      active |-> FALSE, outCalls |-> <<>>]

NoEv ==
  [kind |-> "none", who |-> "", to |-> "", exists |-> FALSE, len |-> 0,
   unread |-> 0, bot |-> FALSE, esc |-> FALSE, qlen |-> 0, err |-> NoError,
   outEsc |-> FALSE, outText |-> FALSE, outImages |-> 0, sends |-> 0,
   calls |-> 0, parts |-> <<>>, started |-> FALSE, live |-> FALSE,
   skipped |-> <<>>, active |-> FALSE, outCalls |-> <<>>]

\* What loadChats may find in chats.json: nothing, or a conversation saved by
\* an earlier run (one inbound text, the bot active).
OldImage ==
  [id |-> <<"wamid", -1>>, sender |-> "user", timestamp |-> FileStamp,
   type |-> "image", text |-> <<"Photo">>, image |-> <<"data">>]
OldMessage ==
  [id |-> <<"wamid", 0>>, sender |-> "user", timestamp |-> FileStamp,
   type |-> "text", text |-> <<"hi">>, image |-> <<>>]
SavedChats ==
  { <<>>,
    [x \in {"s1"} |->
       [messages |-> <<OldImage, OldMessage>>, lastMessage |-> <<"hi">>,
        lastMessageTime |-> FileStamp, unreadCount |-> 2, botActive |-> TRUE,
        isEscalated |-> FALSE, lastAnalyzedTime |-> Never]] }

\* leadsData as declared, and as loadLeads leaves it without a leads file.
NoLeads ==
  [serious |-> <<>>, stalled |-> <<>>, visiting |-> <<>>, followUp |-> <<>>,
   lastUpdated |-> Never]

\* Locals of performLeadAnalysis.  placed: for every category and phone, the
\* entry of the latest run that put the phone there (for the properties);
\* prompt: how many messages of each scanned chat analysisPrompt was built
\* from; result: what the last call returned (leadsData or null).
NoItem == [phone |-> "", reason |-> <<>>]
IdleAnalysis ==
  [pc |-> "idle", force |-> FALSE, active |-> {}, runs |-> 0,
   placed |-> [c \in {"serious", "stalled", "visiting", "followUp"} |->
                 [p \in SessionIds |-> NoItem]],
   prompt |-> [p \in SessionIds |-> 0], result |-> "none"]

\* Locals of the /api/send-message handler; response: what the caller was
\* told by the last request; accepted: the transport took its message.
IdleReply ==
  [pc |-> "idle", to |-> "", kind |-> "", response |-> "none", accepted |-> FALSE,
   count |-> 0]

Init ==
  /\ chatSessions \in SavedChats
  /\ retryQueue = <<>>
  /\ productInventory = InitialInventory
  /\ apiKey \in BOOLEAN
  /\ accessToken \in BOOLEAN
  /\ clock = 0
  /\ wh = [w \in WebhookIds |-> IdleW]
  /\ sweep = IdleSweep
  /\ budget = [inbound |-> 0, ticks |-> 0]
  /\ leadsData = NoLeads
  /\ analysis = IdleAnalysis
  /\ reply = IdleReply
  /\ ev = NoEv

\* ------------------------------------------------------------ webhook turn

TextBody == <<"hi">>
Photo == <<"Photo">>
AnalyzeThis == <<"Analyze this image.">>
Captions == {<<>>, <<"cap">>}
MessageTypes == {"text", "image", "other"}

TextPart(t) == [kind |-> "text", val |-> t]
InlinePart == [kind |-> "inlineData", val |-> <<"data">>]

\* The inbound message stored in the history.
IncomingMsg(id, ts, type, text, image) ==
  [id |-> id, sender |-> "user", timestamp |-> ts, type |-> type,
   text |-> text, image |-> image]

\* messages.push(incomingMsg); lastMessage; lastMessageTime; unreadCount += 1
AppendInboundNoCount(cs, to, msg, now) == Put(cs, to, PushMessage(cs[to], msg, now))
AppendInbound(cs, to, msg, now) ==
  Put(cs, to, [PushMessage(cs[to], msg, now) EXCEPT !.unreadCount = @ + 1])

\* The entry the webhook's catch pushes.
QueueEntry(to, parts, now) == [to |-> to, parts |-> parts, timestamp |-> now]

\* The webhook's catch block: the queue after it.
CatchQueueReset(q, err, entry) == IF ShouldQueue(err) THEN <<entry>> ELSE q
CatchQueue(q, err, entry) == IF ShouldQueue(err) THEN Append(q, entry) ELSE q

\* A delivery is taken up (after markMessageAsRead): the session is created
\* when missing; a text message is appended at once, an image message waits
\* for its download, any other type returns.
WebhookReceive(w, from, mtype, caption, d) ==
  /\ wh[w].pc = "idle"
  /\ mtype = "image" \/ caption = <<>>
  /\ CanRead(d)
  /\ clock' = clock + d
  /\ LET now == clock + d
         cs1 == Ensure(chatSessions, from, now)
         id == <<"wamid", budget.inbound + 1>>
         msg == IncomingMsg(id, now, "text", TextBody, <<>>)
     IN /\ budget' = [budget EXCEPT !.inbound = @ + 1]
        /\ CASE mtype = "text" ->
                  /\ chatSessions' = AppendInbound(cs1, from, msg, now)
                  /\ wh' = [wh EXCEPT ![w] =
                              [IdleW EXCEPT !.pc = "saved", !.to = from, !.id = id,
                                            !.ts = now,
                                            !.parts = <<TextPart(TextBody)>>]]
                  /\ ev' = Snap("inbound", w, from)
             [] mtype = "image" ->
                  /\ chatSessions' = cs1
                  /\ wh' = [wh EXCEPT ![w] =
                              [IdleW EXCEPT !.pc = "download", !.to = from, !.id = id,
                                            !.ts = now, !.caption = caption]]
                  /\ ev' = Snap("imageArrived", w, from)
             [] OTHER ->
                  /\ chatSessions' = cs1
                  /\ wh' = wh
                  /\ ev' = Snap("unsupported", w, from)
  /\ UNCHANGED <<leadsData, analysis, reply, retryQueue, productInventory, apiKey, accessToken, sweep>>

\* downloadMetaImage resolved (media) or gave null: the image message, stamped
\* with the time taken before the download, is appended.  A session deleted in
\* the meantime makes the push throw; the outer catch logs it.
DownloadDone(w, media, d) ==
  /\ wh[w].pc = "download"
  /\ CanRead(d)
  /\ clock' = clock + d
  /\ LET t == wh[w]
         now == clock + d
         text == IF t.caption # <<>> THEN t.caption ELSE Photo
         msg == IncomingMsg(t.id, t.ts, "image", text,
                            IF media THEN <<"data">> ELSE <<>>)
         parts == IF media
                  THEN <<InlinePart,
                         TextPart(IF t.caption # <<>> THEN t.caption ELSE AnalyzeThis)>>
                  ELSE <<>>
     IN IF Exists(chatSessions, t.to)
        THEN /\ chatSessions' = AppendInbound(chatSessions, t.to, msg, now)
             /\ wh' = [wh EXCEPT ![w] = [t EXCEPT !.pc = "saved", !.parts = parts]]
             /\ ev' = Snap("inbound", w, t.to)
        ELSE /\ chatSessions' = chatSessions
             /\ wh' = [wh EXCEPT ![w] = IdleW]
             /\ ev' = Snap("hookError", w, t.to)
  /\ UNCHANGED <<leadsData, analysis, reply, retryQueue, productInventory, apiKey, accessToken, sweep, budget>>

\* The link of image number i (from 0) of the staged images:
\* productInventory.find(p => p.images.includes(imagesToSend[0])).id, then i.
\* <<>> when find returns undefined (reading .id then throws a TypeError).
ImageLinkFirst(inv, images, i) ==
  LET p == FindByImage(inv, images[1])
  IN IF p = 0 THEN <<>> ELSE <<inv[p].id, 0>>
ImageLink(inv, images, i) ==
  LET p == FindByImage(inv, images[1])
  IN IF p = 0 THEN <<>> ELSE <<inv[p].id, i>>

\* The webhook's dispatch from image number t.idx on, up to its next await:
\* the next image is stored and posted (then the 800 ms pause), or the text,
\* or the turn is over.  thrown: the run ended in a TypeError.
WebhookDispatch(t, cs, now) ==
  IF t.idx < Len(t.images)
  THEN LET link == ImageLink(productInventory, t.images, t.idx)
       IN IF link = <<>>
          THEN [thrown |-> TRUE, t |-> t, cs |-> cs]
          ELSE [thrown |-> FALSE,
                t |-> [t EXCEPT !.pc = "postImage", !.inflight = accessToken,
                                !.sends = @ + (IF accessToken THEN 1 ELSE 0)],
                cs |-> SendWhatsAppStore(cs, t.to, ImagePayload(link, <<>>),
                                         FALSE, now, accessToken)]
  ELSE IF t.text # <<>> /\ accessToken
  THEN [thrown |-> FALSE,
        t |-> [t EXCEPT !.pc = "postText", !.inflight = TRUE, !.sends = @ + 1],
        cs |-> SendWhatsAppStore(cs, t.to, TextPayload(formatResponseText(t.text)),
                                 FALSE, now, accessToken)]
  ELSE [thrown |-> FALSE, t |-> IdleW, cs |-> cs]

\* The end of a run of the webhook's inner try block: r is what the dispatch
\* gave; a thrown TypeError goes through the catch block.
WebhookAfter(w, r, now) ==
  IF r.thrown
  THEN /\ wh' = [wh EXCEPT ![w] = IdleW]
       /\ chatSessions' = r.cs
       /\ retryQueue' = CatchQueue(retryQueue, ETypeError,
                                   QueueEntry(wh[w].to, wh[w].parts, now))
  ELSE /\ wh' = [wh EXCEPT ![w] = r.t]
       /\ chatSessions' = r.cs
       /\ retryQueue' = retryQueue

NoticeBody == <<"System Alert: AI Config Missing.">>

\* After saveChats: the lock check, the missing-key notice, the empty-parts
\* return, or the first provider call of sendMessageWithRetry.
LockCheck(w, d) ==
  /\ wh[w].pc = "saved"
  /\ CanRead(d)
  /\ clock' = clock + d
  /\ LET t == wh[w]
         now == clock + d
     IN IF ~Exists(chatSessions, t.to)
        THEN /\ d = 0
             /\ wh' = [wh EXCEPT ![w] = IdleW]
             /\ chatSessions' = chatSessions
             /\ ev' = Snap("hookError", w, t.to)
        ELSE IF chatSessions[t.to].botActive = FALSE
        THEN /\ d = 0
             /\ wh' = [wh EXCEPT ![w] = IdleW]
             /\ chatSessions' = chatSessions
             /\ ev' = Snap("skipLocked", w, t.to)
        ELSE IF ~apiKey
        THEN /\ wh' = [wh EXCEPT ![w] =
                         IF accessToken
                         THEN [t EXCEPT !.pc = "notice", !.inflight = TRUE, !.sends = 1]
                         ELSE IdleW]
             /\ chatSessions' = SendWhatsAppStore(chatSessions, t.to,
                                   TextPayload(NoticeBody), FALSE, now, accessToken)
             /\ ev' = Snap("notice", w, t.to)
        ELSE IF t.parts = <<>>
        THEN /\ d = 0
             /\ wh' = [wh EXCEPT ![w] = IdleW]
             /\ chatSessions' = chatSessions
             /\ ev' = Snap("noParts", w, t.to)
        ELSE /\ d = 0
             /\ wh' = [wh EXCEPT ![w] =
                         [t EXCEPT !.pc = "infer", !.i = 0, !.calls = 1,
                                   !.history =
                                      WebhookHistory(chatSessions[t.to].messages),
                                   !.catalog = productInventory]]
             /\ chatSessions' = chatSessions
             /\ ev' = Snap("inferStart", w, t.to)
  /\ UNCHANGED <<leadsData, analysis, reply, retryQueue, productInventory, apiKey, accessToken, sweep, budget>>

\* What the webhook turn does with the model output: the tool calls are
\* interpreted, an escalation locks the chat and ends the turn, anything else
\* starts the dispatch.
WebhookProcess(t, out, cs, now) ==
  LET r == Interpret(out.calls, productInventory)
      t1 == [t EXCEPT !.images = r.images, !.idx = 0, !.text = out.text]
  IN IF r.lock
     THEN IF Exists(cs, t.to)
          THEN [thrown |-> FALSE, t |-> IdleW,
                cs |-> Put(cs, t.to, LockForEscalation(cs[t.to]))]
          ELSE [thrown |-> TRUE, t |-> t, cs |-> cs]
     ELSE WebhookDispatch(t1, cs, now)

\* The provider answered the call with a model output: the tool calls are
\* interpreted; an escalation locks the session and ends the turn, otherwise
\* the dispatch begins.
WebhookReply(w, out, d) ==
  /\ wh[w].pc = "infer"
  /\ CanRead(d)
  /\ clock' = clock + d
  /\ LET t == wh[w]
         now == clock + d
         r == Interpret(out.calls, productInventory)
     IN /\ ev' = [Snap(IF r.lock THEN "escalation" ELSE "answer", w, t.to)
                    EXCEPT !.outEsc = HasEscalation(out), !.outText = out.text # <<>>,
                           !.outImages = Len(r.images), !.calls = t.calls,
                           !.outCalls = out.calls]
        /\ WebhookAfter(w, WebhookProcess(t, out, chatSessions, now), now)
  /\ UNCHANGED <<leadsData, analysis, reply, productInventory, apiKey, accessToken, sweep, budget>>

\* The provider call failed: a transient error starts the backoff delay, any
\* other error is rethrown to the webhook's catch block.
WebhookError(w, err, d) ==
  /\ wh[w].pc = "infer"
  /\ CanRead(d)
  /\ clock' = clock + d
  /\ LET t == wh[w]
     IN /\ ev' = [Snap(IF IsTransient(err) THEN "retryable" ELSE "rethrown", w, t.to)
                    EXCEPT !.err = err, !.calls = t.calls, !.parts = t.parts]
        /\ IF IsTransient(err)
           THEN /\ d = 0
                /\ wh' = [wh EXCEPT ![w] =
                            [t EXCEPT !.pc = "backoff", !.err = err,
                                      !.delay = RetryDelay(t.i)]]
                /\ retryQueue' = retryQueue
           ELSE /\ wh' = [wh EXCEPT ![w] = IdleW]
                /\ retryQueue' = CatchQueue(retryQueue, err,
                                            QueueEntry(t.to, t.parts, clock + d))
  /\ UNCHANGED <<leadsData, analysis, reply, chatSessions, productInventory, apiKey, accessToken, sweep, budget>>

\* The backoff delay has passed (the clock has moved on): the next attempt,
\* or, with the attempts used up, throw lastError to the webhook's catch block.
WebhookBackoffDone(w) ==
  /\ wh[w].pc = "backoff"
  /\ clock < MaxClock
  /\ clock' = clock + 1
  /\ LET t == wh[w]
     IN IF t.i + 1 < maxRetries
        THEN /\ wh' = [wh EXCEPT ![w] =
                         [t EXCEPT !.pc = "infer", !.i = @ + 1, !.calls = @ + 1,
                                   !.delay = 0, !.err = NoError]]
             /\ retryQueue' = retryQueue
             /\ ev' = [Snap("nextAttempt", w, t.to) EXCEPT !.calls = t.calls]
        ELSE /\ wh' = [wh EXCEPT ![w] = IdleW]
             /\ retryQueue' = CatchQueue(retryQueue, t.err,
                                         QueueEntry(t.to, t.parts, clock + 1))
             /\ ev' = [Snap("exhausted", w, t.to)
                         EXCEPT !.err = t.err, !.calls = t.calls, !.parts = t.parts]
  /\ UNCHANGED <<leadsData, analysis, reply, chatSessions, productInventory, apiKey, accessToken, sweep, budget>>

\* axios.post settled well (and, for an image, the pause passed): the dispatch
\* goes on.  A send made without an access token has no post in flight.
WebhookPostDone(w, d) ==
  /\ wh[w].pc \in {"postImage", "postText", "notice"}
  /\ CanRead(d)
  /\ clock' = clock + d
  /\ LET t == wh[w]
         t1 == [t EXCEPT !.idx = IF t.pc = "postImage" THEN @ + 1 ELSE @,
                         !.inflight = FALSE]
     IN /\ ev' = [Snap(IF t.pc = "postImage" THEN "postedImage"
                       ELSE IF t.pc = "postText" THEN "postedText" ELSE "postedNotice",
                       w, t.to) EXCEPT !.sends = t.sends]
        /\ IF t.pc = "postImage"
           THEN WebhookAfter(w, WebhookDispatch(t1, chatSessions, clock + d), clock + d)
           ELSE /\ d = 0
                /\ WebhookAfter(w, [thrown |-> FALSE, t |-> IdleW, cs |-> chatSessions],
                                clock)
  /\ UNCHANGED <<leadsData, analysis, reply, productInventory, apiKey, accessToken, sweep, budget>>

\* axios.post rejected: sendWhatsApp rethrows; in the try block the catch
\* block decides on queueing, the notice's error goes to the outer catch.
WebhookPostFailed(w, err, d) ==
  /\ wh[w].pc \in {"postImage", "postText", "notice"}
  /\ wh[w].inflight
  /\ CanRead(d)
  /\ clock' = clock + d
  /\ LET t == wh[w]
     IN /\ ev' = [Snap(IF t.pc = "postImage" THEN "failedImage"
                       ELSE IF t.pc = "postText" THEN "failedText" ELSE "failedNotice",
                       w, t.to) EXCEPT !.err = err, !.sends = t.sends]
        /\ wh' = [wh EXCEPT ![w] = IdleW]
        /\ retryQueue' = IF t.pc = "notice" THEN retryQueue
                         ELSE CatchQueue(retryQueue, err,
                                         QueueEntry(t.to, t.parts, clock + d))
  /\ UNCHANGED <<leadsData, analysis, reply, chatSessions, productInventory, apiKey, accessToken, sweep, budget>>

\* ------------------------------------------------------- retry queue sweep

\* The locals a run of the sweep callback starts from or ends with; a run
\* suspended meanwhile stays as it is.
NewTick == [IdleSweep EXCEPT !.parked = sweep.parked]

\* The sweep's check of an entry: the chat exists and the bot is not locked.
\* !chatSessions[item.to] || chatSessions[item.to].botActive === false : discard
LiveIgnoringLock(cs, to) == Exists(cs, to)
Live(cs, to) == Exists(cs, to) /\ cs[to].botActive # FALSE

\* The first entry at or after pos that is not discarded; Len(batch) + 1 when
\* every remaining entry is discarded.
RECURSIVE NextLive(_, _, _)
NextLive(batch, pos, cs) ==
  IF pos > Len(batch) THEN pos
  ELSE IF Live(cs, batch[pos].to) THEN pos
  ELSE NextLive(batch, pos + 1, cs)

\* The for loop from entry pos on, up to its next await: the discarded entries
\* are passed over, and the first provider call for the next live entry is
\* made; with no entry left the callback returns.
SweepRun(batch, pos, cs) ==
  LET j == NextLive(batch, pos, cs)
  IN IF j > Len(batch) THEN NewTick
     ELSE [NewTick EXCEPT !.pc = "infer", !.batch = batch, !.pos = j,
                            !.i = 0, !.calls = 1,
                            !.history = SweepHistory(cs[batch[j].to].messages,
                                                     batch[j].timestamp),
                            !.catalog = productInventory]

\* What a run of the loop from pos on passes over and starts.
LoopInfo(e, batch, pos, cs) ==
  LET j == NextLive(batch, pos, cs)
  IN [e EXCEPT !.started = j <= Len(batch),
               !.live = j <= Len(batch) /\ Exists(cs, batch[j].to)
                          /\ cs[batch[j].to].botActive,
               !.skipped = SubSeq(batch, pos, j - 1)]

\* The timer fires.  With an empty queue or without the API key the callback
\* returns at once and changes nothing (no step); otherwise the queue is
\* copied to currentBatch and cleared (then saveQueue).
SweepTickUpTo(max) ==
  /\ sweep.pc = "idle"
  /\ retryQueue # <<>>
  /\ apiKey
  /\ budget.ticks < max
  /\ budget' = [budget EXCEPT !.ticks = @ + 1]
  /\ sweep' = [NewTick EXCEPT !.pc = "loop", !.batch = retryQueue, !.pos = 1]
  /\ retryQueue' = <<>>
  /\ ev' = Snap("tick", "sweep", "")
  /\ UNCHANGED <<leadsData, analysis, reply, chatSessions, productInventory, apiKey, accessToken, clock, wh>>

\* A tick that starts on the queue and leaves it as it is.
SweepTickKeeps ==
  /\ sweep.pc = "idle"
  /\ retryQueue # <<>>
  /\ apiKey
  /\ sweep' = [NewTick EXCEPT !.pc = "loop", !.batch = retryQueue, !.pos = 1]
  /\ retryQueue' = retryQueue
  /\ ev' = Snap("tick", "sweep", "")
  /\ UNCHANGED <<leadsData, analysis, reply, chatSessions, productInventory, apiKey, accessToken, clock, wh,
                 budget>>

\* The same callback with nothing limiting how often the timer fires.
SweepTickAlways ==
  /\ sweep.pc = "idle"
  /\ retryQueue # <<>>
  /\ apiKey
  /\ sweep' = [NewTick EXCEPT !.pc = "loop", !.batch = retryQueue, !.pos = 1]
  /\ retryQueue' = <<>>
  /\ ev' = Snap("tick", "sweep", "")
  /\ UNCHANGED <<leadsData, analysis, reply, chatSessions, productInventory, apiKey, accessToken, clock, wh,
                 budget>>

SweepTick == SweepTickUpTo(MaxTicks)

\* The event loop resumes the other run of the sweep callback: the run that
\* was going on is suspended at its await.
SwitchTick ==
  /\ sweep.pc # "idle" \/ sweep.parked # <<>>
  /\ sweep' = LET other == IF sweep.parked = <<>> THEN IdleSweep
                           ELSE sweep.parked[1]
                  this == [sweep EXCEPT !.parked = <<>>]
              IN [other EXCEPT !.parked = IF this.pc = "idle" THEN <<>> ELSE <<this>>]
  /\ ev' = NoEv
  /\ UNCHANGED <<leadsData, analysis, reply, chatSessions, retryQueue, productInventory, apiKey, accessToken,
                 clock, wh, budget>>

\* After an await that ends an iteration (saveQueue, saveChats): the loop
\* goes on with the next entry.
SweepNext ==
  /\ sweep.pc = "loop"
  /\ sweep' = SweepRun(sweep.batch, sweep.pos, chatSessions)
  /\ ev' = LoopInfo(Snap("loop", "sweep", ""), sweep.batch, sweep.pos, chatSessions)
  /\ UNCHANGED <<leadsData, analysis, reply, chatSessions, retryQueue, productInventory, apiKey, accessToken,
                 clock, wh, budget>>

\* A replay that sends the text as the model wrote it.
SweepDispatchRaw(sw, cs, now) ==
  LET to == sw.batch[sw.pos].to
  IN IF sw.idx < Len(sw.images)
     THEN LET link == ImageLink(productInventory, sw.images, sw.idx)
          IN IF link = <<>>
             THEN [thrown |-> TRUE, done |-> FALSE, sw |-> sw, cs |-> cs]
             ELSE IF accessToken
             THEN [thrown |-> FALSE, done |-> FALSE,
                   sw |-> [sw EXCEPT !.pc = "postImage", !.inflight = TRUE,
                                     !.sends = @ + 1],
                   cs |-> SendWhatsAppStore(cs, to, ImagePayload(link, <<>>),
                                            FALSE, now, accessToken)]
             ELSE [thrown |-> FALSE, done |-> TRUE, sw |-> sw, cs |-> cs]
     ELSE IF sw.text # <<>> /\ accessToken
     THEN [thrown |-> FALSE, done |-> FALSE,
           sw |-> [sw EXCEPT !.pc = "postText", !.inflight = TRUE, !.sends = @ + 1],
           cs |-> SendWhatsAppStore(cs, to, TextPayload(sw.text),
                                    FALSE, now, accessToken)]
     ELSE [thrown |-> FALSE, done |-> TRUE, sw |-> sw, cs |-> cs]

\* The sweep's dispatch for the current entry from image number sw.idx on, up
\* to its next await.  Without an access token every send returns at once, so
\* the entry is finished in the same run.  done: the entry is finished.
SweepDispatch(sw, cs, now) ==
  LET to == sw.batch[sw.pos].to
  IN IF sw.idx < Len(sw.images)
     THEN LET link == ImageLink(productInventory, sw.images, sw.idx)
          IN IF link = <<>>
             THEN [thrown |-> TRUE, done |-> FALSE, sw |-> sw, cs |-> cs]
             ELSE IF accessToken
             THEN [thrown |-> FALSE, done |-> FALSE,
                   sw |-> [sw EXCEPT !.pc = "postImage", !.inflight = TRUE,
                                     !.sends = @ + 1],
                   cs |-> SendWhatsAppStore(cs, to, ImagePayload(link, <<>>),
                                            FALSE, now, accessToken)]
             ELSE [thrown |-> FALSE, done |-> TRUE, sw |-> sw, cs |-> cs]
     ELSE IF sw.text # <<>> /\ accessToken
     THEN [thrown |-> FALSE, done |-> FALSE,
           sw |-> [sw EXCEPT !.pc = "postText", !.inflight = TRUE, !.sends = @ + 1],
           cs |-> SendWhatsAppStore(cs, to, TextPayload(formatResponseText(sw.text)),
                                    FALSE, now, accessToken)]
     ELSE [thrown |-> FALSE, done |-> TRUE, sw |-> sw, cs |-> cs]

\* The sweep's catch block: the entry is pushed back when the error passes
\* the test, and the iteration ends at saveQueue.
SweepCatch(err) ==
  /\ retryQueue' = IF ShouldQueue(err)
                   THEN Append(retryQueue, sweep.batch[sweep.pos]) ELSE retryQueue
  /\ sweep' = [NewTick EXCEPT !.pc = "loop", !.batch = sweep.batch,
                                !.pos = sweep.pos + 1]

\* The end of a run of the sweep's try block.
SweepAfter(r, e) ==
  IF r.thrown
  THEN /\ SweepCatch(ETypeError)
       /\ chatSessions' = r.cs
       /\ ev' = e
  ELSE IF r.done
  THEN /\ sweep' = SweepRun(sweep.batch, sweep.pos + 1, r.cs)
       /\ retryQueue' = retryQueue
       /\ chatSessions' = r.cs
       /\ ev' = LoopInfo(e, sweep.batch, sweep.pos + 1, r.cs)
  ELSE /\ sweep' = r.sw
       /\ retryQueue' = retryQueue
       /\ chatSessions' = r.cs
       /\ ev' = e

\* The provider answered the replayed request with a model output.
SweepReply(out, d) ==
  /\ sweep.pc = "infer"
  /\ CanRead(d)
  /\ clock' = clock + d
  /\ LET to == sweep.batch[sweep.pos].to
         r == Interpret(out.calls, productInventory)
         sw1 == [sweep EXCEPT !.images = r.images, !.idx = 0, !.text = out.text]
         e == [Snap(IF r.lock THEN "escalation" ELSE "answer", "sweep", to)
                 EXCEPT !.outEsc = HasEscalation(out), !.outText = out.text # <<>>,
                        !.outImages = Len(r.images), !.calls = sweep.calls,
                        !.outCalls = out.calls]
     IN IF r.lock
        THEN /\ d = 0
             /\ IF Exists(chatSessions, to)
                THEN /\ chatSessions' = Put(chatSessions, to,
                                            LockForEscalation(chatSessions[to]))
                     /\ sweep' = [NewTick EXCEPT !.pc = "loop",
                                    !.batch = sweep.batch, !.pos = sweep.pos + 1]
                     /\ retryQueue' = retryQueue
                     /\ ev' = e
                ELSE SweepAfter([thrown |-> TRUE, done |-> FALSE, sw |-> sweep,
                                 cs |-> chatSessions], e)
        ELSE SweepAfter(SweepDispatch(sw1, chatSessions, clock + d), e)
  /\ UNCHANGED <<leadsData, analysis, reply, productInventory, apiKey, accessToken, wh, budget>>

\* The replayed provider call failed.
SweepError(err) ==
  /\ sweep.pc = "infer"
  /\ LET to == sweep.batch[sweep.pos].to
     IN /\ ev' = [Snap(IF IsTransient(err) THEN "retryable" ELSE "rethrown", "sweep", to)
                    EXCEPT !.err = err, !.calls = sweep.calls]
        /\ IF IsTransient(err)
           THEN /\ sweep' = [sweep EXCEPT !.pc = "backoff", !.err = err,
                                          !.delay = RetryDelay(sweep.i)]
                /\ retryQueue' = retryQueue
           ELSE SweepCatch(err)
  /\ UNCHANGED <<leadsData, analysis, reply, chatSessions, productInventory, apiKey, accessToken, clock, wh,
                 budget>>

\* The sweep's backoff delay has passed (the clock has moved on).
SweepBackoffDone ==
  /\ sweep.pc = "backoff"
  /\ clock < MaxClock
  /\ clock' = clock + 1
  /\ LET to == sweep.batch[sweep.pos].to
     IN IF sweep.i + 1 < maxRetries
        THEN /\ sweep' = [sweep EXCEPT !.pc = "infer", !.i = @ + 1, !.calls = @ + 1,
                                       !.delay = 0, !.err = NoError]
             /\ retryQueue' = retryQueue
             /\ ev' = [Snap("nextAttempt", "sweep", to) EXCEPT !.calls = sweep.calls]
        ELSE /\ SweepCatch(sweep.err)
             /\ ev' = [Snap("exhausted", "sweep", to)
                         EXCEPT !.err = sweep.err, !.calls = sweep.calls]
  /\ UNCHANGED <<leadsData, analysis, reply, chatSessions, productInventory, apiKey, accessToken, wh, budget>>

\* axios.post of a replayed answer settled well.
SweepPostDone(d) ==
  /\ sweep.pc \in {"postImage", "postText"}
  /\ CanRead(d)
  /\ clock' = clock + d
  /\ LET to == sweep.batch[sweep.pos].to
         sw1 == [sweep EXCEPT !.idx = IF sweep.pc = "postImage" THEN @ + 1 ELSE @,
                              !.inflight = FALSE]
         e == [Snap(IF sweep.pc = "postImage" THEN "postedImage" ELSE "postedText",
                    "sweep", to) EXCEPT !.sends = sweep.sends]
     IN IF sweep.pc = "postImage"
        THEN SweepAfter(SweepDispatch(sw1, chatSessions, clock + d), e)
        ELSE /\ d = 0
             /\ SweepAfter([thrown |-> FALSE, done |-> TRUE, sw |-> sw1,
                            cs |-> chatSessions], e)
  /\ UNCHANGED <<leadsData, analysis, reply, productInventory, apiKey, accessToken, wh, budget>>

\* axios.post of a replayed answer rejected: the sweep's catch block.
SweepPostFailed(err) ==
  /\ sweep.pc \in {"postImage", "postText"}
  /\ LET to == sweep.batch[sweep.pos].to
     IN /\ ev' = [Snap(IF sweep.pc = "postImage" THEN "failedImage" ELSE "failedText",
                       "sweep", to) EXCEPT !.err = err, !.sends = sweep.sends]
        /\ SweepCatch(err)
  /\ UNCHANGED <<leadsData, analysis, reply, chatSessions, productInventory, apiKey, accessToken, clock, wh,
                 budget>>

\* ------------------------------------------------------------------- admin

\* POST /api/chat/:id/toggle-bot
ToggleBot(id, active) ==
  /\ Exists(chatSessions, id)
  /\ chatSessions' = Put(chatSessions, id, SetBotActive(chatSessions[id], active))
  /\ ev' = [Snap("toggle", "admin", id) EXCEPT !.active = active]
  /\ UNCHANGED <<leadsData, analysis, reply, retryQueue, productInventory, apiKey, accessToken, clock, wh, sweep,
                 budget>>

\* DELETE /api/chat/:id
DeleteChat(id) ==
  /\ Exists(chatSessions, id)
  /\ chatSessions' = Remove(chatSessions, id)
  /\ ev' = NoEv
  /\ UNCHANGED <<leadsData, analysis, reply, retryQueue, productInventory, apiKey, accessToken, clock, wh, sweep,
                 budget>>

\* The admin's text and the public link of an uploaded image.
AdminText == <<"ok">>
UploadLink == <<"uploads", "admin">>

\* The call sendWhatsApp(to, payload, true) of the admin's reply up to its
\* await: without an access token it returns at once and the handler answers
\* { success: true }; otherwise the message is stored and the post begins.
ReplyDispatch(r, payload, now) ==
  /\ chatSessions' = SendWhatsAppStore(chatSessions, r.to, payload, TRUE, now,
                                       accessToken)
  /\ reply' = IF accessToken THEN [r EXCEPT !.pc = "post"]
              ELSE [r EXCEPT !.pc = "idle", !.response = "success"]

\* POST /api/send-message: a text, an image as a data URL, or an image that
\* is no data URL (400).
SendMessage(to, kind, d) ==
  /\ reply.pc = "idle"
  /\ reply.count < MaxReplies
  /\ CanRead(d)
  /\ clock' = clock + d
  /\ LET r == [IdleReply EXCEPT !.to = to, !.kind = kind, !.count = reply.count + 1]
     IN CASE kind = "badImage" ->
               /\ d = 0
               /\ reply' = [r EXCEPT !.response = "invalid"]
               /\ chatSessions' = chatSessions
          [] kind = "image" ->
               /\ d = 0
               /\ reply' = [r EXCEPT !.pc = "write"]
               /\ chatSessions' = chatSessions
          [] OTHER -> ReplyDispatch(r, TextPayload(AdminText), clock + d)
  /\ ev' = Snap("adminSend", "admin", to)
  /\ UNCHANGED <<retryQueue, productInventory, apiKey, accessToken, wh, sweep,
                 budget, leadsData, analysis>>

\* writeFile of the upload resolved: the image is sent with the text as its
\* caption (here: none).
UploadDone(d) ==
  /\ reply.pc = "write"
  /\ CanRead(d)
  /\ clock' = clock + d
  /\ ReplyDispatch(reply, ImagePayload(UploadLink, <<>>), clock + d)
  /\ ev' = Snap("adminSend", "admin", reply.to)
  /\ UNCHANGED <<retryQueue, productInventory, apiKey, accessToken, wh, sweep,
                 budget, leadsData, analysis>>

\* writeFile rejected: the catch block answers 500.
UploadFailed ==
  /\ reply.pc = "write"
  /\ reply' = [reply EXCEPT !.pc = "idle", !.response = "failed"]
  /\ ev' = Snap("adminFailed", "admin", reply.to)
  /\ UNCHANGED <<chatSessions, retryQueue, productInventory, apiKey, accessToken,
                 clock, wh, sweep, budget, leadsData, analysis>>

\* axios.post of the admin's reply resolved: { success: true }.
ReplyPostDone ==
  /\ reply.pc = "post"
  /\ reply' = [reply EXCEPT !.pc = "idle", !.response = "success",
                            !.accepted = TRUE]
  /\ ev' = Snap("adminPosted", "admin", reply.to)
  /\ UNCHANGED <<chatSessions, retryQueue, productInventory, apiKey, accessToken,
                 clock, wh, sweep, budget, leadsData, analysis>>

\* axios.post rejected: sendWhatsApp rethrows and the catch block answers 500.
ReplyPostFailed(err) ==
  /\ reply.pc = "post"
  /\ reply' = [reply EXCEPT !.pc = "idle", !.response = "failed"]
  /\ ev' = [Snap("adminFailed", "admin", reply.to) EXCEPT !.err = err]
  /\ UNCHANGED <<chatSessions, retryQueue, productInventory, apiKey, accessToken,
                 clock, wh, sweep, budget, leadsData, analysis>>

\* ----------------------------------------------------------- lead analyzer

Categories == {"serious", "stalled", "visiting", "followUp"}

\* map.set(i.phone, i): a known key keeps its place and takes the new value,
\* a new key goes to the end.
MapSet(list, item) ==
  IF \E k \in 1..Len(list) : list[k].phone = item.phone
  THEN [k \in 1..Len(list) |->
          IF list[k].phone = item.phone THEN item ELSE list[k]]
  ELSE Append(list, item)

RECURSIVE SetAll(_, _)
SetAll(list, items) ==
  IF items = <<>> THEN list ELSE SetAll(MapSet(list, Head(items)), Tail(items))

\* mergeLists: oldList.forEach(set); newList.forEach(set); Array.from(values)
MergeListsAppend(oldList, newList) == oldList \o newList
MergeLists(oldList, newList) == SetAll(SetAll(<<>>, oldList), newList)

\* The chats a run looks at: more than two messages and, unless forced, a
\* message after the last scan; the MaxAnalyzed most recent of them.
Candidates(cs, force) ==
  {id \in DOMAIN cs :
     /\ Len(cs[id].messages) > 2
     /\ force \/ cs[id].lastMessageTime > cs[id].lastAnalyzedTime}
ActiveChats(cs, force) ==
  LET all == Candidates(cs, force)
  IN IF Cardinality(all) <= MaxAnalyzed THEN all
     ELSE CHOOSE top \in SUBSET all :
            /\ Cardinality(top) = MaxAnalyzed
            /\ \A a \in top, b \in all \ top :
                  cs[a].lastMessageTime >= cs[b].lastMessageTime

\* What the analysis model may return for a run: lists of { phone, reason }.
Item(phone, run, k) == [phone |-> phone, reason |-> <<"run", run, k>>]
ResultLists(run) ==
  { <<>>,
    <<Item("s1", run, 1)>>,
    <<Item("s2", run, 1), Item("s1", run, 2)>>,
    <<Item("s1", run, 1), Item("s1", run, 2)>> }
AnalysisResults(run) ==
  [serious : ResultLists(run), stalled : ResultLists(run),
   visiting : {<<>>}, followUp : {<<>>}]

\* The last entry of a list for a phone; NoItem when it has none.
LastFor(list, phone) ==
  LET at == {k \in 1..Len(list) : list[k].phone = phone}
  IN IF at = {} THEN NoItem
     ELSE list[CHOOSE k \in at : \A j \in at : j <= k]

\* performLeadAnalysis(force) is called (by the route or the midnight timer)
\* with the API key set: with no chat to scan only lastUpdated is written,
\* otherwise the prompt is sent to the model.
AnalyzeStart(force, d) ==
  /\ analysis.pc = "idle"
  /\ analysis.runs < MaxRuns
  /\ apiKey
  /\ CanRead(d)
  /\ LET active == ActiveChats(chatSessions, force)
     IN IF active = {}
        THEN /\ clock' = clock + d
             /\ leadsData' = [leadsData EXCEPT !.lastUpdated = clock + d]
             /\ analysis' = [analysis EXCEPT !.runs = @ + 1, !.result = "leads"]
        ELSE /\ d = 0
             /\ clock' = clock
             /\ leadsData' = leadsData
             /\ analysis' = [analysis EXCEPT !.pc = "generate", !.force = force,
                                             !.active = active, !.runs = @ + 1,
                                             !.result = "none",
                                             !.prompt = [p \in SessionIds |->
                                                IF p \in active
                                                THEN Len(chatSessions[p].messages)
                                                ELSE 0]]
  /\ ev' = NoEv
  /\ UNCHANGED <<chatSessions, retryQueue, productInventory, apiKey, accessToken,
                 wh, sweep, budget, reply>>

\* leadsData = { serious: mergeLists(leadsData.serious, result.serious || []),
\*               ..., lastUpdated: new Date().toISOString() }
ReplacedLeads(ld, result, now) ==
  [serious |-> MergeLists(<<>>, result.serious),
   stalled |-> MergeLists(<<>>, result.stalled),
   visiting |-> MergeLists(<<>>, result.visiting),
   followUp |-> MergeLists(<<>>, result.followUp),
   lastUpdated |-> now]
MergedLeads(ld, result, now) ==
  [serious |-> MergeLists(ld.serious, result.serious),
   stalled |-> MergeLists(ld.stalled, result.stalled),
   visiting |-> MergeLists(ld.visiting, result.visiting),
   followUp |-> MergeLists(ld.followUp, result.followUp),
   lastUpdated |-> now]

\* activeChats.forEach(c => { if (chatSessions[c.id])
\*                              chatSessions[c.id].lastAnalyzedTime = nowStr })
StampAll(cs, active, now) ==
  [id \in DOMAIN cs |-> [cs[id] EXCEPT !.lastAnalyzedTime = now]]
StampScanned(cs, active, now) ==
  [id \in DOMAIN cs |->
     IF id \in active THEN [cs[id] EXCEPT !.lastAnalyzedTime = now] ELSE cs[id]]

\* generateContent resolved with a well-formed result: the lists are merged,
\* lastUpdated is set and the scanned chats that still exist are stamped.
AnalyzeDone(result, d) ==
  /\ analysis.pc = "generate"
  /\ CanRead(d)
  /\ clock' = clock + d
  /\ leadsData' = MergedLeads(leadsData, result, clock + d)
  /\ chatSessions' = StampScanned(chatSessions, analysis.active, clock + d)
  /\ analysis' =
       [analysis EXCEPT
          !.pc = "idle", !.active = {}, !.result = "leads",
          !.prompt = [p \in SessionIds |-> 0],
          !.placed = [c \in Categories |-> [p \in SessionIds |->
                        IF LastFor(result[c], p) # NoItem
                        THEN LastFor(result[c], p) ELSE @[c][p]]]]
  /\ ev' = NoEv
  /\ UNCHANGED <<retryQueue, productInventory, apiKey, accessToken, wh, sweep,
                 budget, reply>>

\* generateContent rejected, or its text was no JSON: the catch block logs
\* and returns null.
AnalyzeFailedStamps ==
  /\ analysis.pc = "generate"
  /\ analysis' = [analysis EXCEPT !.pc = "idle", !.active = {}, !.result = "null",
                                  !.prompt = [p \in SessionIds |-> 0]]
  /\ ev' = NoEv
  /\ leadsData' = [leadsData EXCEPT !.lastUpdated = clock]
  /\ chatSessions' = StampScanned(chatSessions, analysis.active, clock)
  /\ UNCHANGED <<retryQueue, productInventory, apiKey, accessToken, clock, wh, sweep,
                 budget, reply>>
AnalyzeFailed ==
  /\ analysis.pc = "generate"
  /\ analysis' = [analysis EXCEPT !.pc = "idle", !.active = {}, !.result = "null",
                                  !.prompt = [p \in SessionIds |-> 0]]
  /\ ev' = NoEv
  /\ UNCHANGED <<chatSessions, retryQueue, productInventory, apiKey, accessToken,
                 clock, wh, sweep, budget, leadsData, reply>>

\* ------------------------------------------------------------ specification

\* The steps of the webhook invocations ws; ds: by how much the clock a step
\* reads may have moved on since the last reading; max: the deliveries taken;
\* outs: what the model may answer.
WebhookStep(ws, ds, max, outs) ==
  \/ \E w \in ws, from \in SessionIds, mtype \in MessageTypes, c \in Captions,
        d \in ds : budget.inbound < max /\ WebhookReceive(w, from, mtype, c, d)
  \/ \E w \in ws, media \in BOOLEAN, d \in ds : DownloadDone(w, media, d)
  \/ \E w \in ws, d \in ds : LockCheck(w, d)
  \/ \E w \in ws, out \in outs, d \in ds : WebhookReply(w, out, d)
  \/ \E w \in ws, err \in ProviderErrors, d \in ds : WebhookError(w, err, d)
  \/ \E w \in ws : WebhookBackoffDone(w)
  \/ \E w \in ws, d \in ds : WebhookPostDone(w, d)
  \/ \E w \in ws, err \in TransportErrors, d \in ds : WebhookPostFailed(w, err, d)

SweepStep(ds) ==
  \/ SweepTick
  \/ SweepNext
  \/ \E out \in ModelOutputs, d \in ds : SweepReply(out, d)
  \/ \E err \in ProviderErrors : SweepError(err)
  \/ SweepBackoffDone
  \/ \E d \in ds : SweepPostDone(d)
  \/ \E err \in TransportErrors : SweepPostFailed(err)

AdminStep ==
  \/ \E id \in SessionIds, active \in BOOLEAN : ToggleBot(id, active)
  \/ \E id \in SessionIds : DeleteChat(id)

ReplyStep(ds) ==
  \/ \E to \in SessionIds, kind \in {"text", "image", "badImage"}, d \in ds :
        SendMessage(to, kind, d)
  \/ \E d \in ds : UploadDone(d)
  \/ UploadFailed
  \/ ReplyPostDone
  \/ \E err \in TransportErrors : ReplyPostFailed(err)

AnalyzeStep(ds) ==
  \/ \E force \in BOOLEAN, d \in ds : AnalyzeStart(force, d)
  \/ \E result \in AnalysisResults(analysis.runs), d \in ds : AnalyzeDone(result, d)
  \/ AnalyzeFailed

\* One webhook invocation at a time, the sweep and the admin; the clock moves
\* on across the backoff delays only.
Next ==
  \/ WebhookStep({"w1"}, {0}, MaxInbound, ModelOutputs)
  \/ SweepStep({0})
  \/ AdminStep

Spec == Init /\ [][Next]_vars

\* Two webhook invocations side by side (two deliveries in quick succession),
\* without the sweep and the admin.
NextPair == WebhookStep(WebhookIds, {0}, PairInbound, PlainOutputs)

SpecPair == Init /\ [][NextPair]_vars

\* ---------------------------------------------------------------- properties

\* The locals of the handler a step record names.
Handler(who) == IF who = "sweep" THEN sweep ELSE wh[who]

\* The step just taken put a bot message on the wire for the handler's turn.
DispatchedNow ==
  /\ ev.kind \in {"answer", "notice", "postedImage"}
  /\ Handler(ev.who).inflight
  /\ Handler(ev.who).sends = ev.sends + 1

\* C1: in every reachable state a session with isEscalated = true has
\* botActive = false; the toggle that switches the bot back on clears the
\* escalation flag in the same step.
EscalatedImpliesLocked ==
  \A id \in DOMAIN chatSessions :
    chatSessions[id].isEscalated => ~chatSessions[id].botActive

\* C1 witness: a turn has just escalated a session, which is now flagged.
EscalatedSessionSeen ==
  /\ ev.kind = "escalation"
  /\ Exists(chatSessions, ev.to)
  /\ chatSessions[ev.to].isEscalated

\* C2: a model output that calls escalateToAdmin, in the webhook turn or in
\* the sweep, whatever text or displayProduct calls come with it, ends the
\* turn with nothing dispatched and nothing recorded, and leaves the session
\* with botActive = false and isEscalated = true.
SilentEscalation ==
  ev.outEsc =>
    /\ ev.kind = "escalation"
    /\ Handler(ev.who).pc \in {"idle", "loop"}
    /\ Handler(ev.who).sends = 0
    /\ ~Handler(ev.who).inflight
    /\ Exists(chatSessions, ev.to) = ev.exists
    /\ ev.exists =>
         /\ Len(chatSessions[ev.to].messages) = ev.len
         /\ chatSessions[ev.to].botActive = FALSE
         /\ chatSessions[ev.to].isEscalated = TRUE

\* C2 witness: the model escalated with a text and a product display in the
\* same output, for a session that was open to the bot.
EscalationWithAnswerSeen ==
  /\ ev.outEsc
  /\ ev.outText
  /\ ev.exists
  /\ ev.bot
  /\ ~ev.esc

NoDispatchWhileLocked ==
  DispatchedNow => (ev.exists /\ ev.bot)

\* A webhook invocation between its inbound append and the end of its turn.
InTurn(w) ==
  wh[w].pc \in {"saved", "infer", "backoff", "postImage", "postText", "notice"}

\* C5: inbound events of one session are handled one after the other: no
\* invocation appends or goes on with its turn for a session while another
\* invocation is between its append and the end of its turn for that session.
InboundTurnsSerialized ==
  \A a \in WebhookIds, b \in WebhookIds :
    (a # b /\ InTurn(a) /\ InTurn(b)) => wh[a].to # wh[b].to

\* C6: when the gateway gives up on an inbound message after a transient
\* error on every attempt, exactly one entry is appended to the retry queue:
\* the session id, the message's model-input parts and the failure time.
TransientExhaustionQueued ==
  (ev.kind = "exhausted" /\ ev.who \in WebhookIds) =>
    /\ Len(retryQueue) = ev.qlen + 1
    /\ retryQueue[Len(retryQueue)] = QueueEntry(ev.to, ev.parts, clock)

\* C7: a replayed entry of a session that exists with botActive = true, for
\* which the provider gives a text-only answer, makes exactly one outbound
\* send, and the entry is not in the queue once its send has settled.
ReplayedAnswerSentOnce ==
  /\ ( /\ ev.who = "sweep" /\ ev.kind = "answer"
       /\ ev.outText /\ ev.outImages = 0
       /\ ev.exists /\ ev.bot /\ accessToken ) =>
       /\ sweep.pc = "postText"
       /\ sweep.sends = 1
  /\ ( /\ ev.who = "sweep" /\ ev.kind \in {"postedText", "failedText"}
       /\ ev.sends = 1 ) =>
       /\ Len(retryQueue) = ev.qlen
       /\ sweep.sends = 0

\* C8: the sweep drops an entry whose session is missing or has
\* botActive = false: a provider call is started only for an entry whose
\* session exists with the bot on, and the entries passed over get no call,
\* no send and no place in the queue.
DeadEntriesDiscarded ==
  /\ ev.started =>
       /\ ev.live
       /\ sweep.pc = "infer"
       /\ sweep.calls = 1
  /\ ev.skipped # <<>> =>
       /\ \A k \in 1..Len(ev.skipped) :
            \/ ~Exists(chatSessions, ev.skipped[k].to)
            \/ chatSessions[ev.skipped[k].to].botActive = FALSE
       /\ Len(retryQueue) = ev.qlen
       /\ sweep.pc \in {"idle", "infer"}
       /\ sweep.sends = 0
       /\ ~sweep.inflight
       /\ sweep.pc = "idle" => sweep.calls = 0

\* C8 witness: the sweep has just passed over an entry of a session that the
\* admin locked or deleted after the entry was queued.
DiscardedEntrySeen ==
  /\ ev.skipped # <<>>
  /\ sweep.pc = "idle"

\* An error of the provider's transient class: 503, 429 or 'overloaded'.
TransientClass(err) == err.status \in {503, 429} \/ err.overloaded

\* C9: a gateway invocation makes at most maxRetries provider calls; it
\* waits and retries only after a transient error (503, 429, 'overloaded'),
\* with a delay of BaseDelay times the attempt number; any other error ends
\* the invocation at once, with no further call and no delay; the error
\* surfaced after the last attempt is the last one received.
GatewayBoundedRetries ==
  /\ \A who \in WebhookIds \cup {"sweep"} :
       LET h == Handler(who)
       IN /\ h.calls <= maxRetries
          /\ h.pc = "infer" => (h.calls = h.i + 1 /\ h.delay = 0)
          /\ h.pc = "backoff" =>
               /\ TransientClass(h.err)
               /\ h.calls = h.i + 1
               /\ h.delay = BaseDelay * h.calls
  /\ ev.kind = "retryable" =>
       /\ TransientClass(ev.err)
       /\ Handler(ev.who).pc = "backoff"
       /\ Handler(ev.who).err = ev.err
       /\ Handler(ev.who).calls = ev.calls
  /\ ev.kind = "rethrown" =>
       /\ ~TransientClass(ev.err)
       /\ Handler(ev.who).pc \in {"idle", "loop"}
       /\ Handler(ev.who).calls = 0
       /\ Handler(ev.who).delay = 0
  /\ ev.kind = "nextAttempt" =>
       /\ ev.calls < maxRetries
       /\ Handler(ev.who).pc = "infer"
       /\ Handler(ev.who).calls = ev.calls + 1
  /\ ev.kind = "exhausted" =>
       /\ ev.calls = maxRetries
       /\ TransientClass(ev.err)
       /\ Handler(ev.who).pc \in {"idle", "loop"}

\* C9 witness: the second attempt of an invocation failed with an error that
\* is not transient, after the backoff of the first.
SecondAttemptRethrownSeen ==
  /\ ev.kind = "rethrown"
  /\ ev.calls = maxRetries

\* C9 as first stated: an error that is not transient ends the invocation
\* after exactly one provider call.
PermanentFailsAfterOneCall ==
  ev.kind = "rethrown" => ev.calls = 1

\* A permanent provider error: the provider answered with an HTTP status
\* that is not of the transient class.
PermanentClass(err) == err.status # 0 /\ ~TransientClass(err)

\* C10: a permanent provider error never puts an entry into the retry queue:
\* the webhook's turn ends without an entry, and the sweep drops the entry it
\* was replaying.
PermanentErrorNotQueued ==
  (ev.kind = "rethrown" /\ PermanentClass(ev.err)) =>
    /\ Len(retryQueue) = ev.qlen
    /\ Handler(ev.who).pc \in {"idle", "loop"}
    /\ ev.who = "sweep" => sweep.calls = 0 /\ sweep.batch # <<>>

\* C10 witness: the sweep was replaying an entry and the provider refused the
\* request.
PermanentErrorInSweepSeen ==
  /\ ev.kind = "rethrown"
  /\ ev.who = "sweep"
  /\ ev.err = E400

\* C11: when the send of a reply the model has decided on fails at the
\* transport (an image or the text, in a webhook turn or in a sweep replay),
\* the retry queue is left as it was.
DispatchFailureNotQueued ==
  ev.kind \in {"failedImage", "failedText"} => Len(retryQueue) = ev.qlen

\* One webhook invocation and the sweep with a clock that moves on between
\* the steps, without the admin.
NextTimed ==
  \/ WebhookStep({"w1"}, {0, 1}, MaxInbound, ModelOutputs)
  \/ SweepStep({0, 1})

SpecTimed == Init /\ [][NextTimed]_vars

\* C12: in a turn with images and text the images are stored and sent one by
\* one in index order, the text is stored and sent only after every image has
\* been accepted, and no message of the session is stamped later than the one
\* just stored.
ImagesBeforeText ==
  (DispatchedNow /\ Handler(ev.who).pc \in {"postImage", "postText"}) =>
    LET h == Handler(ev.who)
    IN /\ Exists(chatSessions, ev.to)
       /\ LET msgs == chatSessions[ev.to].messages
              m == msgs[Len(msgs)]
          IN /\ Len(msgs) = ev.len + 1
             /\ m.sender = "bot"
             /\ h.pc = "postImage" =>
                  /\ m.type = "image"
                  /\ h.idx < Len(h.images)
                  /\ m.image[2] = h.idx
                  /\ h.sends = h.idx + 1
             /\ h.pc = "postText" =>
                  /\ m.type = "text"
                  /\ h.idx = Len(h.images)
                  /\ h.sends = Len(h.images) + 1
             /\ \A k \in 1..Len(msgs) : msgs[k].timestamp <= m.timestamp

\* C12 witness: the text of a turn has just been stored after its two images,
\* each of the three at a later time than the one before.
TextAfterTwoImagesSeen ==
  /\ DispatchedNow
  /\ Handler(ev.who).pc = "postText"
  /\ Len(Handler(ev.who).images) = 2
  /\ Exists(chatSessions, ev.to)
  /\ LET msgs == chatSessions[ev.to].messages
         n == Len(msgs)
     IN /\ n >= 3
        /\ msgs[n - 2].type = "image"
        /\ msgs[n - 2].timestamp < msgs[n - 1].timestamp
        /\ msgs[n - 1].timestamp < msgs[n].timestamp

\* The entries of a history that hold the webhook's image placeholder.
Placeholders(history) ==
  {k \in 1..Len(history) :
     /\ history[k].parts[1].kind = "text"
     /\ history[k].parts[1].val # <<>>
     /\ Head(history[k].parts[1].val) = "[User sent an image labeled: "}

\* The image messages among the stored messages.
ImageMessages(msgs) == {k \in 1..Len(msgs) : msgs[k].type = "image"}

\* C13: the history handed to the model, in a webhook turn and in a sweep
\* replay, holds text parts only; in a webhook turn every earlier image
\* message within the window stands there as a text placeholder, and an
\* inbound image that starts an inference is passed as inline data in the
\* parts of the active turn.
HistoryImagesAsPlaceholders ==
  /\ \A who \in WebhookIds \cup {"sweep"} :
       LET h == Handler(who).history
       IN \A k \in 1..Len(h) :
            /\ Len(h[k].parts) = 1
            /\ h[k].parts[1].kind = "text"
  /\ ev.kind = "inferStart" =>
       LET t == wh[ev.who]
           msgs == chatSessions[ev.to].messages
           prior == AllButLast(msgs)
       IN /\ Len(prior) <= HistoryWindow =>
               Cardinality(Placeholders(t.history)) = Cardinality(ImageMessages(prior))
          /\ \A k \in 1..Len(msgs) :
               (msgs[k].id = t.id /\ msgs[k].type = "image") =>
                  /\ msgs[k].image # <<>>
                  /\ t.parts[1].kind = "inlineData"

\* C13 witness: an inbound image starts an inference in a session whose
\* history holds an earlier image message.
ImageTurnWithImageHistorySeen ==
  /\ ev.kind = "inferStart"
  /\ wh[ev.who].parts[1].kind = "inlineData"
  /\ Placeholders(wh[ev.who].history) # {}

\* Conversations saved by earlier runs, long enough for the lead analyzer.
ThirdMessage ==
  [id |-> <<"ts", FileStamp>>, sender |-> "bot", timestamp |-> FileStamp,
   type |-> "text", text |-> <<"a">>, image |-> <<>>]
BusySession(scanned) ==
  [messages |-> <<OldImage, OldMessage, ThirdMessage>>, lastMessage |-> <<"a">>,
   lastMessageTime |-> FileStamp, unreadCount |-> 2, botActive |-> TRUE,
   isEscalated |-> FALSE, lastAnalyzedTime |-> scanned]
BusyChats ==
  { [x \in {"s1", "s2"} |-> BusySession(IF x = "s1" THEN a ELSE b)] :
      a \in {Never, FileStamp}, b \in {Never} }

\* The lead analyzer and the admin's deletions, over saved conversations.
InitLeads ==
  /\ chatSessions \in BusyChats
  /\ retryQueue = <<>>
  /\ productInventory = InitialInventory
  /\ apiKey = TRUE
  /\ accessToken \in BOOLEAN
  /\ clock = 0
  /\ wh = [w \in WebhookIds |-> IdleW]
  /\ sweep = IdleSweep
  /\ budget = [inbound |-> 0, ticks |-> 0]
  /\ leadsData = NoLeads
  /\ analysis = IdleAnalysis
  /\ reply = IdleReply
  /\ ev = NoEv

NextLeads ==
  \/ AnalyzeStep({0, 1})
  \/ \E id \in SessionIds : DeleteChat(id)

SpecLeads == InitLeads /\ [][NextLeads]_vars

\* C14: after any sequence of successful lead analyzer runs every category
\* list holds each phone at most once, and the entry of a phone in a category
\* is the one of the latest run that put the phone into that category.
LeadsUpserted ==
  \A c \in Categories :
    LET list == leadsData[c]
    IN /\ \A j \in 1..Len(list), k \in 1..Len(list) :
            list[j].phone = list[k].phone => j = k
       /\ \A k \in 1..Len(list) : list[k] = analysis.placed[c][list[k].phone]
       /\ \A p \in SessionIds :
            analysis.placed[c][p] # NoItem =>
               \E k \in 1..Len(list) : list[k] = analysis.placed[c][p]

\* C14 witness: two runs have put the same phone into the same category, and
\* the list holds the entry of the second run.
SecondRunReplacedSeen ==
  /\ analysis.runs = 2
  /\ analysis.pc = "idle"
  /\ leadsData.serious = <<Item("s2", 1, 1), Item("s1", 2, 1)>>

\* One webhook invocation, the admin's toggles and deletions, and the admin's
\* replies.
NextAdmin ==
  \/ WebhookStep({"w1"}, {0}, MaxInbound, ShortOutputs)
  \/ AdminStep
  \/ ReplyStep({0})

SpecAdmin == Init /\ [][NextAdmin]_vars

MissingKeyNoticeSent ==
  ev.kind = "notice" =>
    /\ wh[ev.who].calls = 0
    /\ Len(retryQueue) = ev.qlen
    /\ wh[ev.who].pc = "notice"
    /\ wh[ev.who].inflight
    /\ wh[ev.who].sends = 1
    /\ Exists(chatSessions, ev.to)
    /\ Len(chatSessions[ev.to].messages) = ev.len + 1
    /\ chatSessions[ev.to].messages[ev.len + 1].text = NoticeBody

\* C17: the admin's reply is answered with success only when the transport
\* has accepted the message.
SuccessMeansAccepted ==
  reply.response = "success" => reply.accepted

\* C18: a replayed entry whose provider call fails with a transient error
\* (rate limit, service unavailable, overloaded, timeout) is appended once to
\* the current queue, and the sweep goes on with the next entry.
ReplayTransientRequeued ==
  ( /\ ev.who = "sweep"
    /\ \/ ev.kind = "exhausted"
       \/ ev.kind = "rethrown" /\ ev.err = ETimedOut ) =>
    /\ sweep.pc = "loop"
    /\ sweep.pos >= 2
    /\ Len(retryQueue) = ev.qlen + 1
    /\ retryQueue[Len(retryQueue)] = sweep.batch[sweep.pos - 1]

\* C20: a bot message is recorded in the session only after the transport has
\* accepted it: while its send is still in flight the session's messages
\* are as they were before the send.
RecordedOnlyAfterSend ==
  DispatchedNow =>
    /\ Exists(chatSessions, ev.to) = ev.exists
    /\ ev.exists => Len(chatSessions[ev.to].messages) = ev.len

\* A queue file left by an earlier run (loadQueue): one entry for s1, with the
\* time of its failure as a number.
SavedEntry == [to |-> "s1", parts |-> <<TextPart(TextBody)>>, timestamp |-> FileStamp]

InitRecovery ==
  /\ chatSessions \in SavedChats \ {<<>>}
  /\ retryQueue = <<SavedEntry>>
  /\ productInventory = InitialInventory
  /\ apiKey = TRUE
  /\ accessToken \in BOOLEAN
  /\ clock = 0
  /\ wh = [w \in WebhookIds |-> IdleW]
  /\ sweep = IdleSweep
  /\ budget = [inbound |-> 0, ticks |-> 0]
  /\ leadsData = NoLeads
  /\ analysis = IdleAnalysis
  /\ reply = IdleReply
  /\ ev = NoEv

\* One webhook invocation and the sweep, started with a saved queue.
NextRecovery ==
  \/ WebhookStep({"w1"}, {0}, MaxInbound, ShortOutputs)
  \/ SweepStep({0})

SpecRecovery == InitRecovery /\ [][NextRecovery]_vars

\* q is the beginning of r.
IsPrefix(q, r) == Len(q) <= Len(r) /\ SubSeq(r, 1, Len(q)) = q

LongMessage(k, n, imageOff, emptyOff) ==
  [id |-> <<"m", k>>, sender |-> IF (n - k) % 2 = 0 THEN "user" ELSE "bot",
   timestamp |-> k, type |-> IF n - k = imageOff THEN "image" ELSE "text",
   text |-> IF n - k = emptyOff THEN <<>> ELSE <<"m", k>>, image |-> <<>>]

LongChats(n, imageOff, emptyOff) ==
  [x \in {"s1"} |->
     [messages |-> [k \in 1..n |-> LongMessage(k, n, imageOff, emptyOff)],
      lastMessage |-> <<"m", n>>, lastMessageTime |-> n, unreadCount |-> 1,
      botActive |-> TRUE, isEscalated |-> FALSE, lastAnalyzedTime |-> Never]]

\* The server some time into a run: a long conversation whose latest inbound
\* message has just been saved by its webhook invocation, and one queue entry
\* for the same chat, enqueued around the time of the latest messages.
InitHistory ==
  /\ \E n \in (HistoryWindow - 1)..MaxMessages,
        imageOff \in {-1, 2, HistoryWindow}, emptyOff \in {-1, 1, HistoryWindow - 1} :
       /\ chatSessions = LongChats(n, imageOff, emptyOff)
       /\ wh = [w \in WebhookIds |->
                  IF w = "w1"
                  THEN [IdleW EXCEPT !.pc = "saved", !.to = "s1", !.id = <<"m", n>>,
                                     !.ts = n, !.parts = <<TextPart(<<"m", n>>)>>]
                  ELSE IdleW]
  /\ \E t \in (MaxMessages - 2)..(MaxMessages + 1) :
       retryQueue = <<QueueEntry("s1", <<TextPart(TextBody)>>, t)>>
  /\ productInventory = InitialInventory
  /\ apiKey = TRUE
  /\ accessToken = TRUE
  /\ clock = MaxMessages + 1
  /\ sweep = IdleSweep
  /\ budget = [inbound |-> 1, ticks |-> 0]
  /\ leadsData = NoLeads
  /\ analysis = IdleAnalysis
  /\ reply = IdleReply
  /\ ev = NoEv

\* The two context builders at work: the webhook turn reaches its first
\* provider call, the sweep takes the queue and reaches its own.
NextHistory ==
  \/ \E w \in WebhookIds : LockCheck(w, 0)
  \/ SweepTick
  \/ SweepNext

SpecHistory == InitHistory /\ [][NextHistory]_vars

\* h is, entry by entry, the last Len(h) entries of s.
IsSuffixOf(h, s) ==
  /\ Len(h) <= Len(s)
  /\ \A i \in 1..Len(h) : h[i] = s[Len(s) - Len(h) + i]

\* The messages the webhook's builder hands on: those with a text or an image.
HasContent(m) == m.text # <<>> \/ m.type = "image"

InitStamps ==
  /\ chatSessions = <<>>
  /\ retryQueue = <<>>
  /\ productInventory = InitialInventory
  /\ apiKey = TRUE
  /\ accessToken = TRUE
  /\ clock = 0
  /\ wh = [w \in WebhookIds |-> IdleW]
  /\ sweep = IdleSweep
  /\ budget = [inbound |-> 0, ticks |-> 0]
  /\ leadsData = NoLeads
  /\ analysis = IdleAnalysis
  /\ reply = IdleReply
  /\ ev = NoEv

\* One counterpart sends texts and photos in quick succession (two webhook
\* invocations side by side) while time passes; a provider call either gives
\* a plain answer or fails with a network error, and the sweep replays what
\* was queued.
NextStamps ==
  \/ \E w \in WebhookIds, mtype \in {"text", "image"}, d \in {0, 1} :
        budget.inbound < PairInbound /\ WebhookReceive(w, "s1", mtype, <<>>, d)
  \/ \E w \in WebhookIds, d \in {0, 1} : DownloadDone(w, TRUE, d)
  \/ \E w \in WebhookIds : LockCheck(w, 0)
  \/ \E w \in WebhookIds, out \in PlainOutputs : WebhookReply(w, out, 0)
  \/ \E w \in WebhookIds, d \in {0, 1} : WebhookError(w, ENetwork, d)
  \/ \E w \in WebhookIds : WebhookPostDone(w, 0)
  \/ SweepTick
  \/ SweepNext
  \/ \E out \in PlainOutputs : SweepReply(out, 0)
  \/ SweepPostDone(0)

SpecStamps == InitStamps /\ [][NextStamps]_vars

\* The entries of a history that stand for messages of the counterpart.
UserEntries(h) == {k \in 1..Len(h) : h[k].role = "user"}

\* C22: the inbound message that triggers a model call is given to the model
\* as the active turn only.  In the webhook turn the message the builder
\* leaves out (the latest of the session) is the turn's own; in a replay the
\* history holds fewer messages of the counterpart than the session has from
\* up to the time of the enqueue, the triggering one being among those.
TriggerOnlyAsActiveTurn ==
  /\ ev.kind = "inferStart" =>
       LET msgs == chatSessions[ev.to].messages
       IN msgs[Len(msgs)].id = wh[ev.who].id
  /\ (ev.who = "sweep" /\ ev.started) =>
       LET item == sweep.batch[sweep.pos]
           msgs == chatSessions[item.to].messages
           sent == {k \in 1..Len(msgs) :
                      /\ msgs[k].sender = "user"
                      /\ msgs[k].timestamp # FileStamp
                      /\ msgs[k].timestamp <= item.timestamp}
       IN sent # {} => Cardinality(UserEntries(sweep.history)) < Cardinality(sent)

\* The step just taken appended a message to the session it is about.
AppendedNow ==
  /\ Exists(chatSessions, ev.to)
  /\ Len(chatSessions[ev.to].messages) > ev.len

\* C23: a replay's history holds only messages stamped strictly before the
\* entry's enqueue time (m.timestamp < item.timestamp), so that no message
\* appended after the enqueue appears in it: a message appended while an entry
\* of its chat waits in the queue carries a timestamp that is not before the
\* entry's, and the replay's filter keeps it out.
LateMessagesStayOutOfReplay ==
  AppendedNow =>
    LET msgs == chatSessions[ev.to].messages
        last == msgs[Len(msgs)]
    IN \A k \in 1..Min(ev.qlen, Len(retryQueue)) :
         retryQueue[k].to = ev.to =>
           ~Before(last.timestamp, retryQueue[k].timestamp)

\* ------------------------------------------------------ product inventory

\* Products an admin may store: the two of the loaded file, one whose only
\* image is also the first image of p1, and one with six images.
Lookalike == [id |-> "p3", images |-> <<"i1">>]
Album == [id |-> "p6", images |-> <<"j1", "j2", "j3", "j4", "j5", "j6">>]
Shelf == {InitialInventory[1], InitialInventory[2], Lookalike, Album}

\* Inventory files the server may load.
Inventories ==
  { InitialInventory,
    <<Lookalike, InitialInventory[1]>>,
    <<Album, InitialInventory[2]>> }

\* Answers of a model that shows products.
DisplayOutputs ==
  { Out(<<"a">>, <<Display("p1")>>),
    Out(<<"a">>, <<Display("px")>>),
    Out(<<"a">>, <<Display("p2")>>),
    Out(<<"a">>, <<Display("p1"), Display("p2")>>),
    Out(<<"a">>, <<Display("p6")>>),
    Out(<<"a">>, <<Display("p6"), Display("p1")>>) }

\* POST /api/products: productInventory = products
ReplaceProducts(products) ==
  /\ productInventory' = products
  /\ ev' = Snap("inventory", "admin", "")
  /\ UNCHANGED <<leadsData, analysis, reply, chatSessions, retryQueue, apiKey, accessToken, clock, wh, sweep,
                 budget>>

\* POST /api/product: productInventory.push(product)
AddProduct(product) ==
  /\ Len(productInventory) < MaxProducts
  /\ productInventory' = Append(productInventory, product)
  /\ ev' = Snap("inventory", "admin", "")
  /\ UNCHANGED <<leadsData, analysis, reply, chatSessions, retryQueue, apiKey, accessToken, clock, wh, sweep,
                 budget>>

\* PUT /api/product/:id: productInventory[index] = updatedProduct (404 and
\* no change when the id is not found)
UpdateProduct(id, product) ==
  /\ FindProduct(productInventory, id) # 0
  /\ productInventory' =
       [productInventory EXCEPT ![FindProduct(productInventory, id)] = product]
  /\ ev' = Snap("inventory", "admin", "")
  /\ UNCHANGED <<leadsData, analysis, reply, chatSessions, retryQueue, apiKey, accessToken, clock, wh, sweep,
                 budget>>

\* DELETE /api/product/:id: productInventory.filter(p => p.id !== id) (404
\* and no change when nothing was removed)
DeleteProduct(id) ==
  /\ FindProduct(productInventory, id) # 0
  /\ productInventory' = SelectSeq(productInventory, LAMBDA q : q.id # id)
  /\ ev' = Snap("inventory", "admin", "")
  /\ UNCHANGED <<leadsData, analysis, reply, chatSessions, retryQueue, apiKey, accessToken, clock, wh, sweep,
                 budget>>

InventoryStep ==
  \/ \E products \in Inventories : ReplaceProducts(products)
  \/ \E product \in Shelf : AddProduct(product)
  \/ \E product \in Shelf : UpdateProduct(product.id, product)
  \/ \E product \in Shelf : DeleteProduct(product.id)

\* A server with both keys configured, no saved conversation and one of the
\* inventory files.
InitShelf ==
  /\ chatSessions = <<>>
  /\ retryQueue = <<>>
  /\ productInventory \in Inventories
  /\ apiKey = TRUE
  /\ accessToken = TRUE
  /\ clock = 0
  /\ wh = [w \in WebhookIds |-> IdleW]
  /\ sweep = IdleSweep
  /\ budget = [inbound |-> 0, ticks |-> 0]
  /\ leadsData = NoLeads
  /\ analysis = IdleAnalysis
  /\ reply = IdleReply
  /\ ev = NoEv

\* One text of one counterpart; the model shows products, or the provider call
\* or a send fails with a network error; the sweep replays what was queued.
NextShelf ==
  \/ budget.inbound < MaxInbound /\ WebhookReceive("w1", "s1", "text", <<>>, 0)
  \/ LockCheck("w1", 0)
  \/ \E out \in DisplayOutputs : WebhookReply("w1", out, 0)
  \/ WebhookError("w1", ENetwork, 0)
  \/ WebhookPostDone("w1", 0)
  \/ WebhookPostFailed("w1", ENetwork, 0)
  \/ SweepTick
  \/ SweepNext
  \/ \E out \in DisplayOutputs : SweepReply(out, 0)
  \/ SweepPostDone(0)

SpecShelf == InitShelf /\ [][NextShelf]_vars

\* The same with the admin editing the inventory at any time.
NextCatalog == NextShelf \/ InventoryStep

SpecCatalog == InitShelf /\ [][NextCatalog]_vars

\* The first product of inv with the given id that has images: its index in
\* inv, 0 when no product has the id or the first one that has it has no image.
WithImages(inv, id) ==
  LET named == {k \in 1..Len(inv) : inv[k].id = id}
  IN IF named = {} THEN 0
     ELSE LET k == CHOOSE j \in named : \A i \in named : j <= i
          IN IF inv[k].images = <<>> THEN 0 ELSE k

\* The displayProduct calls of an output that name a product with images.
Resolved(calls, inv) ==
  {k \in 1..Len(calls) :
     calls[k].name = "displayProduct" /\ WithImages(inv, calls[k].arg) # 0}

\* The product the last of those calls names: its index in inv.
Shown(calls, inv) ==
  LET k == CHOOSE j \in Resolved(calls, inv) :
             \A i \in Resolved(calls, inv) : i <= j
  IN WithImages(inv, calls[k].arg)

\* C24: a displayProduct call whose productId matches no product, or a product
\* without images, stages nothing, raises no error (nothing is queued) and
\* leaves the text reply to be dispatched; a call for a product with n >= 1
\* images stages exactly the first min(MaxImages, n) of them.
DisplayStagesFirstFive ==
  ev.kind = "answer" =>
    LET h == Handler(ev.who)
        inv == productInventory
    IN IF Resolved(ev.outCalls, inv) = {}
       THEN /\ ev.outImages = 0
            /\ Len(retryQueue) = ev.qlen
            /\ (ev.outText /\ accessToken) =>
                 /\ h.pc = "postText"
                 /\ AppendedNow
                 /\ chatSessions[ev.to].messages[ev.len + 1].type = "text"
       ELSE LET images == inv[Shown(ev.outCalls, inv)].images
                n == Len(images)
            IN /\ ev.outImages = Min(MaxImages, n)
               /\ h.pc = "postImage" =>
                    h.images = [i \in 1..Min(MaxImages, n) |-> images[i]]

\* C24 witness: the model showed the product with six images, the first five
\* are staged and the first of them is on its way.
FiveOfSixStagedSeen ==
  /\ ev.kind = "answer"
  /\ ev.outCalls = <<Display("p6")>>
  /\ Resolved(ev.outCalls, productInventory) # {}
  /\ Len(productInventory[Shown(ev.outCalls, productInventory)].images) > MaxImages
  /\ Handler(ev.who).pc = "postImage"
  /\ Len(Handler(ev.who).images) = MaxImages

\* C25: the images a turn dispatches are those of the product named by the
\* last displayProduct call that resolved to a product with images, and every
\* link identifies that product and the image's index: the first image sent
\* after the answer links to that product's image 0, and every further image
\* links to the same product and the next index.
LinksNameShownProduct ==
  LET h == Handler(ev.who)
      msgs == chatSessions[ev.to].messages
  IN /\ (ev.kind = "answer" /\ h.pc = "postImage") =>
          /\ Resolved(ev.outCalls, productInventory) # {}
          /\ AppendedNow
          /\ msgs[Len(msgs)].image =
               <<productInventory[Shown(ev.outCalls, productInventory)].id, 0>>
     /\ (ev.kind = "postedImage" /\ h.pc = "postImage") =>
          /\ AppendedNow
          /\ msgs[Len(msgs)].image = <<msgs[Len(msgs) - 1].image[1], h.idx>>

\* C26: within one turn the inventory the system instruction was built from,
\* the inventory the product ids are resolved in and the inventory the links
\* are built from are one and the same, also when the admin edits the
\* inventory while the inference or the sends are in flight: a step of a turn
\* that interprets the answer or builds the next link finds the inventory the
\* turn's chat was created with.
TurnReadsOneInventory ==
  [][ /\ \A w \in WebhookIds :
           /\ (wh[w].pc = "infer" /\ ev'.who = w
                 /\ ev'.kind \in {"answer", "escalation"})
                => productInventory = wh[w].catalog
           /\ (wh[w].pc = "postImage" /\ ev'.who = w /\ ev'.kind = "postedImage"
                 /\ wh[w].idx + 1 < Len(wh[w].images))
                => productInventory = wh[w].catalog
      /\ (sweep.pc = "infer" /\ ev'.who = "sweep"
            /\ ev'.kind \in {"answer", "escalation"})
           => productInventory = sweep.catalog
      /\ (sweep.pc = "postImage" /\ ev'.who = "sweep" /\ ev'.kind = "postedImage"
            /\ sweep.idx + 1 < Len(sweep.images))
           => productInventory = sweep.catalog ]_vars

\* C27: chatSessions holds one session per id; a step that finds the session
\* of an id keeps it (its messages stay as a prefix, and botActive and
\* isEscalated change in a toggle or an escalation of that chat only), and a
\* step that creates a session creates it with botActive = true, not
\* escalated, and with no message but the one the step itself appends.
SessionKeptOrCreatedFresh ==
  [][ \A id \in SessionIds :
        /\ (Exists(chatSessions, id) /\ Exists(chatSessions', id)) =>
             /\ IsPrefix(chatSessions[id].messages, chatSessions'[id].messages)
             /\ ~(ev'.to = id /\ ev'.kind \in {"toggle", "escalation"}) =>
                  /\ chatSessions'[id].botActive = chatSessions[id].botActive
                  /\ chatSessions'[id].isEscalated = chatSessions[id].isEscalated
        /\ (~Exists(chatSessions, id) /\ Exists(chatSessions', id)) =>
             /\ chatSessions'[id].botActive = TRUE
             /\ chatSessions'[id].isEscalated = FALSE
             /\ Len(chatSessions'[id].messages) <= 1 ]_vars

\* C27 witness: an inbound message was appended to a session that had
\* messages already.
InboundOnExistingSeen ==
  /\ ev.kind = "inbound"
  /\ ev.exists
  /\ ev.len >= 2
  /\ Len(chatSessions[ev.to].messages) = ev.len + 1

\* ------------------------------------------- every writer of unreadCount

\* One delivery of one counterpart (a text, a photo or another type), short
\* model outputs, network errors of the provider and of the transport, the
\* sweep, the bot toggle and one text reply of the admin.
NextUnread ==
  \/ \E mtype \in MessageTypes :
        budget.inbound < MaxInbound /\ WebhookReceive("w1", "s1", mtype, <<>>, 0)
  \/ \E media \in BOOLEAN : DownloadDone("w1", media, 0)
  \/ LockCheck("w1", 0)
  \/ \E out \in ShortOutputs : WebhookReply("w1", out, 0)
  \/ WebhookError("w1", ENetwork, 0)
  \/ WebhookPostDone("w1", 0)
  \/ WebhookPostFailed("w1", ENetwork, 0)
  \/ SweepTick
  \/ SweepNext
  \/ \E out \in ShortOutputs : SweepReply(out, 0)
  \/ SweepPostDone(0)
  \/ \E active \in BOOLEAN : ToggleBot("s1", active)
  \/ SendMessage("s1", "text", 0)
  \/ ReplyPostDone

SpecUnread == Init /\ [][NextUnread]_vars

\* C28: unreadCount goes up by exactly one with every inbound message that is
\* appended, is set to zero when a message of the human operator is recorded,
\* and is left alone by every other step: bot sends, the escalation lock,
\* toggle-bot and the sweep's replays.
UnreadCountsInbound ==
  [][ \A id \in SessionIds :
        Exists(chatSessions', id) =>
          LET old == IF Exists(chatSessions, id) THEN chatSessions[id]
                     ELSE NewSession(0)
              new == chatSessions'[id]
              grew == Len(new.messages) = Len(old.messages) + 1
              inbound == grew /\ new.messages[Len(new.messages)].sender = "user"
              operator == grew /\ ev'.kind = "adminSend" /\ ev'.to = id
          IN new.unreadCount = IF inbound THEN old.unreadCount + 1
                               ELSE IF operator THEN 0
                               ELSE old.unreadCount ]_vars

\* C28 witness: the operator's reply was recorded in a session with unread
\* messages, and the count is zero.
OperatorResetSeen ==
  /\ ev.kind = "adminSend"
  /\ ev.unread >= 2
  /\ Len(chatSessions[ev.to].messages) = ev.len + 1
  /\ chatSessions[ev.to].unreadCount = 0

\* C29: every recorded message carries the sender it came from (the
\* counterpart, the bot or the human operator); a reply of the admin is
\* recorded with a sender other than the bot's.
OperatorReplyNotBot ==
  /\ \A id \in DOMAIN chatSessions :
       \A k \in 1..Len(chatSessions[id].messages) :
         chatSessions[id].messages[k].sender \in {"user", "bot", "system"}
  /\ (ev.kind = "adminSend" /\ AppendedNow) =>
       LET msgs == chatSessions[ev.to].messages
       IN msgs[Len(msgs)].sender # "bot"

\* C30: in every reachable state the timestamps of a session's messages are
\* non-decreasing in the order of the sequence, whatever the interleaving of
\* inbound texts, inbound photos (with their download) and sends.
TimestampsNonDecreasing ==
  \A id \in DOMAIN chatSessions :
    LET msgs == chatSessions[id].messages
    IN \A i, j \in 1..Len(msgs) :
         i < j => msgs[i].timestamp <= msgs[j].timestamp

\* ------------------------------------------------ message ids and the clock

\* A delivery answered by the bot with one text, and one text reply of the
\* admin, while time passes: every send is made by a different callback, so
\* that two sends read the clock independently of each other.
NextIds ==
  \/ \E from \in SessionIds, mtype \in MessageTypes, d \in {0, 1} :
        budget.inbound < MaxInbound /\ WebhookReceive("w1", from, mtype, <<>>, d)
  \/ \E media \in BOOLEAN, d \in {0, 1} : DownloadDone("w1", media, d)
  \/ \E d \in {0, 1} : LockCheck("w1", d)
  \/ \E out \in PlainOutputs, d \in {0, 1} : WebhookReply("w1", out, d)
  \/ WebhookPostDone("w1", 0)
  \/ \E to \in SessionIds, d \in {0, 1} : SendMessage(to, "text", d)
  \/ ReplyPostDone

SpecIds == Init /\ [][NextIds]_vars

\* C31: no two messages of a session have the same id, whatever the sequence
\* of inbound deliveries (ids of the provider) and of sends (ids made of
\* Date.now()).
MessageIdsUnique ==
  \A id \in DOMAIN chatSessions :
    LET msgs == chatSessions[id].messages
    IN \A i, j \in 1..Len(msgs) : i # j => msgs[i].id # msgs[j].id

\* ------------------------------------------- lead analysis: failure, stamps

\* The phones of a category list.
PhonesOf(list) == {list[k].phone : k \in 1..Len(list)}

\* C32: when the analysis model call or the parsing of its result fails, the
\* lead cache (the four lists and lastUpdated) and the lastAnalyzedTime of
\* every session stay as they were, and performLeadAnalysis returns null (the
\* route answers 500).
AnalysisFailureKeepsCache ==
  [][ (analysis.pc = "generate" /\ analysis'.pc = "idle"
         /\ analysis'.result # "leads")
        => /\ analysis'.result = "null"
           /\ leadsData' = leadsData
           /\ DOMAIN chatSessions' = DOMAIN chatSessions
           /\ \A id \in DOMAIN chatSessions :
                chatSessions'[id].lastAnalyzedTime = chatSessions[id].lastAnalyzedTime
    ]_vars

\* C32 witness: the second run failed after the first one had filled the
\* cache.
FailedRunAfterFilledCacheSeen ==
  /\ analysis.pc = "idle"
  /\ analysis.result = "null"
  /\ analysis.runs = 2
  /\ leadsData.serious # <<>>

\* C33: after a successful analysis run every session of the analysed batch
\* that still exists has lastAnalyzedTime equal to the run time, in whatever
\* category of the result it appears or in none, and the sessions outside the
\* batch keep their lastAnalyzedTime.
StampsFollowBatch ==
  [][ (analysis.pc = "generate" /\ analysis'.pc = "idle"
         /\ analysis'.result = "leads")
        => /\ DOMAIN chatSessions' = DOMAIN chatSessions
           /\ \A id \in DOMAIN chatSessions :
                chatSessions'[id].lastAnalyzedTime =
                  IF id \in analysis.active THEN clock'
                  ELSE chatSessions[id].lastAnalyzedTime ]_vars

\* C33 witness: a run has stamped s2, which is in no category, and has left
\* s1, which was outside the batch, with the stamp it had in the file.
UnlistedStampedSeen ==
  /\ analysis.pc = "idle"
  /\ analysis.result = "leads"
  /\ leadsData.lastUpdated >= 1
  /\ Exists(chatSessions, "s1") /\ Exists(chatSessions, "s2")
  /\ chatSessions["s2"].lastAnalyzedTime = leadsData.lastUpdated
  /\ \A c \in Categories : "s2" \notin PhonesOf(leadsData[c])
  /\ chatSessions["s1"].lastAnalyzedTime = FileStamp

\* ------------------------------------------------------ draining the queue

\* Messages stored in a conversation.
Stored(id) == IF Exists(chatSessions, id) THEN Len(chatSessions[id].messages) ELSE 0

\* The sweep over a queue loaded from the file, tick after tick with nothing
\* limiting how often the timer fires: the provider answers every replayed
\* request, a send is taken by the transport or fails with a network error,
\* and the admin may delete the chat.
NextDrain ==
  \/ SweepTickAlways
  \/ SweepNext
  \/ \E out \in ShortOutputs : Stored("s1") < MaxStored /\ SweepReply(out, 0)
  \/ SweepPostDone(0)
  \/ SweepPostFailed(ENetwork)
  \/ DeleteChat("s1")

\* The timer keeps firing, the runs of the callback go on, the provider and
\* the transport settle every call.
FairDrain ==
  /\ WF_vars(SweepTickAlways)
  /\ WF_vars(SweepNext)
  /\ WF_vars(\E out \in ShortOutputs : Stored("s1") < MaxStored /\ SweepReply(out, 0))
  /\ WF_vars(SweepPostDone(0) \/ SweepPostFailed(ENetwork))

SpecDrain == InitRecovery /\ [][NextDrain]_vars /\ FairDrain

Entries(q) == {q[k] : k \in 1..Len(q)}

\* C34: with the sweep ticking, the AI credential present and the provider
\* answering every replayed request, the queued entry eventually leaves the
\* retry queue for good: from some point on it is never in the queue again.
EntryLeavesForGood == <>[](SavedEntry \notin Entries(retryQueue))

\* ------------------------------------------- replay against the webhook turn

\* The webhook turn standing where the replay stands: same chat, same images
\* staged, same position in them, same text.
Twin(sw) ==
  [IdleW EXCEPT !.pc = sw.pc, !.to = sw.batch[sw.pos].to, !.images = sw.images,
                !.idx = sw.idx, !.text = sw.text, !.sends = sw.sends]

\* The replay went on as the webhook turn r would: the same conversations
\* (messages stored in the same order with the same images and text, the same
\* botActive and isEscalated), and the same send awaited next.
SameAsTurn(r) ==
  /\ chatSessions' = r.cs
  /\ r.t.pc = "postText" => sweep'.pc = "postText" /\ sweep'.text = r.t.text
  /\ r.t.pc = "postImage" /\ accessToken
       => /\ sweep'.pc = "postImage"
          /\ sweep'.images = r.t.images
          /\ sweep'.idx = r.t.idx
          /\ sweep'.text = r.t.text
  /\ r.t.pc = "idle" \/ r.thrown => sweep'.pc \notin {"postImage", "postText"}
                                      \/ sweep'.pos # sweep.pos

\* C35: a sweep replay interprets the model output and dispatches as a webhook
\* turn does: from the same output, inventory and conversations, each step of
\* the replay stores and sends the messages the webhook turn would (same
\* images, same order, same text) and changes botActive and isEscalated alike.
ReplayActsAsWebhookTurn ==
  [][ /\ \A out \in ModelOutputs, d \in {0, 1} :
           SweepReply(out, d)
             => SameAsTurn(WebhookProcess(Twin(sweep), out, chatSessions, clock'))
      /\ \A d \in {0, 1} :
           sweep.pc = "postImage" /\ SweepPostDone(d)
             => SameAsTurn(WebhookDispatch([Twin(sweep) EXCEPT !.idx = @ + 1],
                                           chatSessions, clock')) ]_vars

ReplayedImagesThenTextSeen ==
  /\ ev.who = "sweep"
  /\ ev.kind = "postedImage"
  /\ sweep.pc = "postText"
  /\ sweep.idx = Len(sweep.images)
  /\ Stored(sweep.batch[sweep.pos].to) >= sweep.idx + 1

\* ------------------------------------------------------- the queue on disk

\* retry_queue.json: saveQueue writes retryQueue after every change the sweep
\* and the webhook make to it, in the run that made the change, so once the
\* write has completed the file holds what retryQueue holds.
QueueFile == retryQueue

\* The entries of the running sweep's batch that are neither answered nor
\* discarded yet.
Pending(sw) ==
  IF sw.pc = "idle" THEN {}
  ELSE {sw.batch[k] : k \in sw.pos..Len(sw.batch)}

\* C36: the retry queue is durable: wherever the process may stop, every
\* entry not yet delivered or discarded is in the persisted queue file, the
\* entries of the batch a sweep is working on included.
BatchEntriesAreOnDisk == Pending(sweep) \subseteq Entries(QueueFile)

\* ---------------------------------------------------- overlapping sweep ticks

OtherEntry == [SavedEntry EXCEPT !.to = "s2"]

\* Two saved conversations, each with a failed message in the queue file.
InitOverlap ==
  /\ chatSessions = [x \in SessionIds |-> (CHOOSE cs \in SavedChats : cs # <<>>)["s1"]]
  /\ retryQueue = <<SavedEntry, OtherEntry>>
  /\ productInventory = InitialInventory
  /\ apiKey = TRUE
  /\ accessToken = TRUE
  /\ clock = 0
  /\ wh = [w \in WebhookIds |-> IdleW]
  /\ sweep = IdleSweep
  /\ budget = [inbound |-> 0, ticks |-> 0]
  /\ leadsData = NoLeads
  /\ analysis = IdleAnalysis
  /\ reply = IdleReply
  /\ ev = NoEv

\* The timer fires again while the previous run of the callback is still at
\* an await; meanwhile a new inbound message is answered and its send fails.
NextOverlap ==
  \/ SweepTickAlways
  \/ SwitchTick
  \/ SweepNext
  \/ \E out \in PlainOutputs :
        /\ sweep.pc = "infer"
        /\ Stored(sweep.batch[sweep.pos].to) < MaxStored
        /\ SweepReply(out, 0)
  \/ SweepPostDone(0)
  \/ SweepPostFailed(ENetwork)
  \/ budget.inbound < MaxInbound /\ WebhookReceive("w1", "s1", "text", <<>>, 1)
  \/ LockCheck("w1", 0)
  \/ \E out \in PlainOutputs : WebhookReply("w1", out, 0)
  \/ WebhookPostDone("w1", 0)
  \/ WebhookPostFailed("w1", ENetwork, 0)

SpecOverlap == InitOverlap /\ [][NextOverlap]_vars

\* The entries a run of the sweep still has to work on, in order.
Remaining(sw) ==
  IF sw.pc = "idle" THEN <<>> ELSE SubSeq(sw.batch, sw.pos, Len(sw.batch))

\* Every place an entry can be: the queue, the running sweep's batch and the
\* batch of the run suspended at its await.
Everywhere ==
  retryQueue \o Remaining(sweep)
    \o (IF sweep.parked = <<>> THEN <<>> ELSE Remaining(sweep.parked[1]))

\* C37: each failed inbound event is represented at most once across the
\* retry queue and the batches of all runs of the sweep in progress, also
\* when a tick starts while the previous one is still awaiting a call.
EntriesHeldOnce ==
  \A i, j \in 1..Len(Everywhere) : i # j => Everywhere[i] # Everywhere[j]

TwoTicksAtWorkSeen ==
  /\ sweep.pc \in {"infer", "postText"}
  /\ sweep.parked # <<>>
  /\ sweep.parked[1].pc \in {"infer", "postText"}
  /\ Len(Everywhere) = 3

\* ------------------------------------------------- deletion and turns in flight

\* C38: once the admin has deleted a session, a bot turn or a sweep replay
\* that was under way does not bring it back: no send of a turn or a replay
\* finds its session missing and leaves it existing.
DeletedSessionStaysDeleted ==
  ~( /\ ev.who \in WebhookIds \cup {"sweep"}
     /\ ev.kind \in {"answer", "postedImage"}
     /\ ~ev.exists
     /\ Exists(chatSessions, ev.to) )

\* ------------------------------------------ messages during an analysis run

\* Lead analysis runs while a customer of a scanned conversation writes.
NextLate ==
  \/ AnalyzeStep({0, 1})
  \/ \E d \in {0, 1} :
        budget.inbound < MaxInbound /\ WebhookReceive("w1", "s1", "text", <<>>, d)
  \/ LockCheck("w1", 0)
  \/ \E out \in PlainOutputs : WebhookReply("w1", out, 0)
  \/ WebhookPostDone("w1", 0)

SpecLate == InitLeads /\ [][NextLate]_vars

\* C39: a session that received a message while the analysis call was in
\* flight leaves the run with lastMessageTime later than lastAnalyzedTime, so
\* the next non-forced run selects it again.
LateMessageKeepsCandidate ==
  [][ /\ analysis.pc = "generate"
      /\ analysis'.pc = "idle"
      /\ analysis'.result = "leads"
      => \A id \in analysis.active :
           /\ Exists(chatSessions, id)
           /\ Len(chatSessions[id].messages) > analysis.prompt[id]
           => chatSessions'[id].lastMessageTime > chatSessions'[id].lastAnalyzedTime
    ]_vars

\* ------------------------------------------------------- merging the lists

\* C40: a successful analysis merge removes no entry from the lead cache:
\* every phone listed in a category before the run is listed in that category
\* after it, so a customer the later run places elsewhere is in both lists.
MergeKeepsEveryPhone ==
  [][ \A c \in Categories : PhonesOf(leadsData[c]) \subseteq PhonesOf(leadsData'[c])
    ]_vars

ListedInOldAndNewSeen ==
  /\ analysis.result = "leads"
  /\ analysis.runs = 2
  /\ \E c1, c2 \in Categories :
        /\ c1 # c2
        /\ "s1" \in PhonesOf(leadsData[c1]) \cap PhonesOf(leadsData[c2])
        /\ analysis.placed[c1]["s1"] # analysis.placed[c2]["s1"]

====
